---------------------------- MODULE Spec2Model ----------------------------
(***************************************************************************)
(* Storage scan and cache subsystem of the archive web interface:         *)
(* FilesystemStorageProvider (directory scanner), StorageService (TTL      *)
(* cache) and the legacy module-level cache of api/urls.py.                *)
(*                                                                         *)
(* Strings are sequences of one-character strings, so that split,         *)
(* startswith, concatenation and strptime are computed and not assumed.    *)
(***************************************************************************)
EXTENDS Integers, Sequences, FiniteSets, TLC

\* Python's None where a datetime is expected
NoTime == <<>>

(***************************************************************************)
(* Bounds of the model.                                                    *)
(***************************************************************************)
MaxItems == 2        \* entries of the path-segment directory that varies
MaxScans == 2        \* scans (Catalog objects allocated) in one behaviour
MaxTtl == 2          \* cache_ttl_seconds is drawn from -1 .. MaxTtl
StartTime == 3       \* time.time() when the service is constructed
MaxTime == 6         \* last instant of the bounded clock
timeout_seconds == 1 \* scan budget of the provider

(***************************************************************************)
(* Characters and strings.                                                 *)
(***************************************************************************)
DigitChars == <<"0", "1", "2", "3", "4", "5", "6", "7", "8", "9">>

DigitSet == {DigitChars[i] : i \in 1..10}

LetterSet == {"a", "b", "c", "d", "e", "f", "g", "h", "i", "j", "k", "l", "m",
              "n", "o", "p", "q", "r", "s", "t", "u", "v", "w", "x", "y", "z",
              "T", "Z"}

DigitVal(c) == (CHOOSE i \in 1..10 : DigitChars[i] = c) - 1

Lower(c) == IF c = "T" THEN "t" ELSE IF c = "Z" THEN "z" ELSE c

\* str.startswith(prefix)
StartsWith(s, p) ==
    /\ Len(s) >= Len(p)
    /\ \A i \in 1..Len(p) : s[i] = p[i]

\* str.split(sep) for a one-character separator: always at least one part
RECURSIVE SplitFrom(_, _, _, _)
SplitFrom(s, sep, i, cur) ==
    IF i > Len(s) THEN <<cur>>
    ELSE IF s[i] = sep THEN <<cur>> \o SplitFrom(s, sep, i + 1, <<>>)
    ELSE SplitFrom(s, sep, i + 1, Append(cur, s[i]))

Split(s, sep) == SplitFrom(s, sep, 1, <<>>)

\* str.replace(old, new) for one-character old and new
Replace(s, old, new) == [i \in 1..Len(s) |-> IF s[i] = old THEN new ELSE s[i]]

\* str.isalnum(): non-empty and every character a letter or a digit
IsAlnum(s) == Len(s) > 0 /\ \A i \in 1..Len(s) : s[i] \in DigitSet \cup LetterSet

\* the string without the characters of a set: s.replace(c, '') for each c
RECURSIVE Without(_, _)
Without(s, cs) ==
    IF s = <<>> THEN <<>>
    ELSE IF Head(s) \in cs THEN Without(Tail(s), cs)
    ELSE <<Head(s)>> \o Without(Tail(s), cs)

(***************************************************************************)
(* datetime.strptime: the format is compiled to a regular expression that  *)
(* is matched at the start of the string with backtracking, alternatives   *)
(* in their written order (two characters before one); then the whole     *)
(* string must have been consumed and the fields must form a valid date.   *)
(* A format is a sequence of directives Dir("Y"), Dir("m"), ... and of     *)
(* literal characters Lit(c).                                              *)
(***************************************************************************)
Dir(c) == [lit |-> FALSE, c |-> c]

Lit(c) == [lit |-> TRUE, c |-> c]

\* %Y%m%dT%H%M%SZ
FmtCompact == <<Dir("Y"), Dir("m"), Dir("d"), Lit("T"), Dir("H"), Dir("M"), Dir("S"), Lit("Z")>>

\* %Y%m%d_%H%M%S
FmtUnderscore == <<Dir("Y"), Dir("m"), Dir("d"), Lit("_"), Dir("H"), Dir("M"), Dir("S")>>

\* %Y-%m-%d_%H-%M-%S
FmtDashed == <<Dir("Y"), Lit("-"), Dir("m"), Lit("-"), Dir("d"), Lit("_"),
               Dir("H"), Lit("-"), Dir("M"), Lit("-"), Dir("S")>>

\* the alternatives of one directive, on a candidate of one or two characters
FieldMatch(f, c) ==
    IF Len(c) = 2
    THEN CASE f = "m" -> \/ c[1] = "1" /\ c[2] \in {"0", "1", "2"}
                         \/ c[1] = "0" /\ c[2] \in DigitSet \ {"0"}
           [] f = "d" -> \/ c[1] = "3" /\ c[2] \in {"0", "1"}
                         \/ c[1] \in {"1", "2"} /\ c[2] \in DigitSet
                         \/ c[1] = "0" /\ c[2] \in DigitSet \ {"0"}
                         \/ c[1] = " " /\ c[2] \in DigitSet \ {"0"}
           [] f = "H" -> \/ c[1] = "2" /\ c[2] \in {"0", "1", "2", "3"}
                         \/ c[1] \in {"0", "1"} /\ c[2] \in DigitSet
           [] f = "M" -> c[1] \in {"0", "1", "2", "3", "4", "5"} /\ c[2] \in DigitSet
           [] f = "S" -> \/ c[1] = "6" /\ c[2] \in {"0", "1"}
                         \/ c[1] \in {"0", "1", "2", "3", "4", "5"} /\ c[2] \in DigitSet
           [] OTHER -> FALSE
    ELSE CASE f \in {"m", "d"} -> c[1] \in DigitSet \ {"0"}
           [] f \in {"H", "M", "S"} -> c[1] \in DigitSet
           [] OTHER -> FALSE

\* int() of the matched text of a directive
FieldVal(c) ==
    IF Len(c) = 2
    THEN (IF c[1] = " " THEN 0 ELSE 10 * DigitVal(c[1])) + DigitVal(c[2])
    ELSE DigitVal(c[1])

NoMatch == [ok |-> FALSE]

RECURSIVE RegexMatch(_, _, _, _, _)
RegexMatch(fmt, s, p, i, acc) ==
    IF p > Len(fmt) THEN [ok |-> TRUE, end |-> i, val |-> acc]
    ELSE LET e == fmt[p].c IN
      IF fmt[p].lit
      THEN \* a literal character; the expression is compiled with IGNORECASE
           IF i <= Len(s) /\ Lower(s[i]) = Lower(e)
           THEN RegexMatch(fmt, s, p + 1, i + 1, acc)
           ELSE NoMatch
      ELSE IF e = "Y"
      THEN IF i + 3 <= Len(s) /\ \A j \in i..(i + 3) : s[j] \in DigitSet
           THEN RegexMatch(fmt, s, p + 1, i + 4,
                    [acc EXCEPT !.Y = 1000 * DigitVal(s[i]) + 100 * DigitVal(s[i + 1])
                                      + 10 * DigitVal(s[i + 2]) + DigitVal(s[i + 3])])
           ELSE NoMatch
      ELSE LET two == IF i + 1 <= Len(s) /\ FieldMatch(e, <<s[i], s[i + 1]>>)
                      THEN RegexMatch(fmt, s, p + 1, i + 2,
                               [acc EXCEPT ![e] = FieldVal(<<s[i], s[i + 1]>>)])
                      ELSE NoMatch
           IN IF two.ok THEN two
              ELSE IF i <= Len(s) /\ FieldMatch(e, <<s[i]>>)
              THEN RegexMatch(fmt, s, p + 1, i + 1, [acc EXCEPT ![e] = FieldVal(<<s[i]>>)])
              ELSE NoMatch

IsLeap(y) == (y % 4 = 0 /\ y % 100 # 0) \/ y % 400 = 0

DaysInMonth(y, m) ==
    IF m = 2 THEN (IF IsLeap(y) THEN 29 ELSE 28)
    ELSE IF m \in {4, 6, 9, 11} THEN 30 ELSE 31

\* datetime(Y, m, d, H, M, S) raises ValueError outside these ranges
ValidDatetime(v) ==
    /\ v.Y >= 1
    /\ v.m \in 1..12
    /\ v.d >= 1 /\ v.d <= DaysInMonth(v.Y, v.m)
    /\ v.H \in 0..23 /\ v.M \in 0..59 /\ v.S \in 0..59

\* a match of the start of s taken for a match of the whole of it
MatchedDatetimeUnanchored(m, s) ==
    IF ~m.ok THEN NoTime
    ELSE IF ~ValidDatetime(m.val) THEN NoTime
    ELSE <<m.val.Y, m.val.m, m.val.d, m.val.H, m.val.M, m.val.S>>

\* the datetime of a match m of the format's expression on s, or NoTime where
\* strptime raises ValueError: no match, unconverted data, a date that does
\* not exist
MatchedDatetime(m, s) ==
    IF ~m.ok THEN NoTime
    ELSE IF m.end # Len(s) + 1 THEN NoTime
    ELSE IF ~ValidDatetime(m.val) THEN NoTime
    ELSE <<m.val.Y, m.val.m, m.val.d, m.val.H, m.val.M, m.val.S>>

\* datetime.strptime(s, fmt)
Strptime(s, fmt) ==
    MatchedDatetime(
        RegexMatch(fmt, s, 1, 1, [Y |-> 1900, m |-> 1, d |-> 1, H |-> 0, M |-> 0, S |-> 0]),
        s)

\* datetime comparison: a < b
RECURSIVE TupleLess(_, _, _)
TupleLess(a, b, i) ==
    IF i > Len(a) THEN FALSE
    ELSE IF a[i] # b[i] THEN a[i] < b[i]
    ELSE TupleLess(a, b, i + 1)

DtLess(a, b) == TupleLess(a, b, 1)

(***************************************************************************)
(* FilesystemStorageProvider._parse_timestamp                              *)
(***************************************************************************)
ReqPrefix == <<"r", "e", "q", "_">>

\* the first attempt that did not raise ValueError
OrElse(t, next) == IF t # NoTime THEN t ELSE next

\* "for fmt in formats": %Y%m%dT%H%M%SZ, %Y%m%d_%H%M%S, %Y-%m-%d_%H-%M-%S
TryFormats(folder_name) ==
    OrElse(Strptime(folder_name, FmtCompact),
           OrElse(Strptime(folder_name, FmtUnderscore),
                  Strptime(folder_name, FmtDashed)))

\* the req_ branch reading the date and the time behind a one-token id
ParseRequestFolderOneTokenId(folder_name, parts) ==
    IF StartsWith(folder_name, ReqPrefix) /\ Len(parts) >= 4
    THEN Strptime(parts[3] \o <<"_">> \o parts[4], FmtUnderscore)
    ELSE NoTime

\* the req_ branch: the last two of the parts of folder_name.split('_')
ParseRequestFolder(folder_name, parts) ==
    IF StartsWith(folder_name, ReqPrefix) /\ Len(parts) >= 3
    THEN Strptime(parts[Len(parts) - 1] \o <<"_">> \o parts[Len(parts)], FmtUnderscore)
    ELSE NoTime

ParseTimestamp(folder_name) ==
    OrElse(ParseRequestFolder(folder_name, Split(folder_name, "_")),
           TryFormats(folder_name))

(***************************************************************************)
(* JSON values of a metadata document, reduced to what the scanner reads:  *)
(* the type of the value and, for a string, its text.  Numbers, lists and  *)
(* objects stand for non-zero / non-empty ones (truthy in Python).         *)
(***************************************************************************)
J(t, s) == [t |-> t, s |-> s]

JAbsent == J("absent", <<>>)

JStr(s) == J("str", s)

\* bool(v) for a value read with dict.get
Truthy(v) == (v.t = "str" /\ v.s # <<>>) \/ v.t \in {"num", "list", "obj"}

\* The metadata.json of a capture directory.  state: "missing" (no file),
\* "malformed" (not JSON), "nonobject" (JSON, top level not an object) or
\* "object"; for an object, the values of its keys archive_info, url and title,
\* the value of archive_info.url when archive_info is an object, and whether
\* it has other keys (such as artifacts_created).
MetaFile(state, archive_info, ai_url, url, title, extra) ==
    [state |-> state, archive_info |-> archive_info, ai_url |-> ai_url,
     url |-> url, title |-> title, extra |-> extra]

\* the empty dict {}
EmptyDict == [archive_info |-> JAbsent, ai_url |-> JAbsent, url |-> JAbsent,
              title |-> JAbsent, extra |-> FALSE]

\* FilesystemStorageProvider._parse_metadata_json
ParseMetadataJson(meta) ==
    IF meta.state # "object" THEN EmptyDict
    ELSE [archive_info |-> meta.archive_info,
          ai_url |-> IF meta.archive_info.t = "obj" THEN meta.ai_url ELSE JAbsent,
          url |-> meta.url, title |-> meta.title, extra |-> meta.extra]

\* bool(metadata): the dict has at least one key
DictTruthy(d) ==
    d.archive_info.t # "absent" \/ d.url.t # "absent" \/ d.title.t # "absent" \/ d.extra

(***************************************************************************)
(* URLs.                                                                   *)
(***************************************************************************)
Http == <<"h", "t", "t", "p", ":", "/", "/">>

Https == <<"h", "t", "t", "p", "s", ":", "/", "/">>

HasHttpScheme(u) == StartsWith(u, Http) \/ StartsWith(u, Https)

\* urllib.parse.unquote on the escapes that occur in the names of the model
HexChar(a, b) ==
    CASE a = "2" /\ b = "F" -> "/"
      [] a = "2" /\ b = "E" -> "."
      [] a = "3" /\ b = "A" -> ":"
      [] OTHER -> "?"

HexSet == DigitSet \cup {"A", "B", "C", "D", "E", "F"}

RECURSIVE Unquote(_)
Unquote(s) ==
    IF s = <<>> THEN <<>>
    ELSE IF Head(s) = "%" /\ Len(s) >= 3 /\ s[2] \in HexSet /\ s[3] \in HexSet
    THEN <<HexChar(s[2], s[3])>> \o Unquote(SubSeq(s, 4, Len(s)))
    ELSE <<Head(s)>> \o Unquote(Tail(s))

\* the text between the scheme and the first "/" after it
RECURSIVE UpTo(_, _)
UpTo(s, c) ==
    IF s = <<>> \/ Head(s) = c THEN <<>> ELSE <<Head(s)>> \o UpTo(Tail(s), c)

Authority(u) ==
    IF StartsWith(u, Https) THEN UpTo(SubSeq(u, Len(Https) + 1, Len(u)), "/")
    ELSE UpTo(SubSeq(u, Len(Http) + 1, Len(u)), "/")

\* pydantic HttpUrl accepts the value: a string with scheme http or https and
\* a host (exact on the URLs of the model: lower case, "scheme://host/path")
HttpUrlValid(v) ==
    /\ v.t = "str"
    /\ HasHttpScheme(v.s)
    /\ IsAlnum(Without(Authority(v.s), {".", "-"}))

(***************************************************************************)
(* models.Snapshot and models.ArchivedUrl: construction validates.         *)
(***************************************************************************)
NoSnapshot == [ok |-> FALSE]

\* Snapshot.validate_snapshot_id_format
ValidSnapshotId(v) ==
    IF StartsWith(v, ReqPrefix) THEN Len(v) >= 10
    ELSE Len(v) = 16 /\ Strptime(v, FmtCompact) # NoTime

\* the title field: Optional[str], at most 500 characters
ValidTitle(v) == v.t \in {"str", "null"}

\* Snapshot(...): the model object, or NoSnapshot where pydantic raises
\* ValidationError.  available_artifacts goes through list(set(v)): its order
\* is not defined, so it is a set.
Snapshot(snapshot_id, timestamp, url, title, folder_path, metadata, available_artifacts) ==
    IF /\ Len(snapshot_id) >= 1
       /\ ValidSnapshotId(snapshot_id)
       /\ HttpUrlValid(url)
       /\ ValidTitle(title)
    THEN [ok |-> TRUE, snapshot_id |-> snapshot_id, timestamp |-> timestamp,
          url |-> url.s, title |-> title, folder_path |-> folder_path,
          metadata |-> metadata, available_artifacts |-> available_artifacts]
    ELSE NoSnapshot

\* ArchivedUrl.validate_url_id
ValidateUrlId(v) == IsAlnum(Without(v, {"_", "-"}))

\* sorted(...) without reverse=True
RECURSIVE InsertAscending(_, _)
InsertAscending(sorted, s) ==
    IF sorted = <<>> THEN <<s>>
    ELSE IF DtLess(s.timestamp, Head(sorted).timestamp)
    THEN <<s>> \o sorted
    ELSE <<Head(sorted)>> \o InsertAscending(Tail(sorted), s)

\* sorted(v, key=timestamp, reverse=True): stable, equal timestamps keep
\* their order
RECURSIVE InsertByTimestamp(_, _)
InsertByTimestamp(sorted, s) ==
    IF sorted = <<>> THEN <<s>>
    ELSE IF DtLess(Head(sorted).timestamp, s.timestamp)
    THEN <<s>> \o sorted
    ELSE <<Head(sorted)>> \o InsertByTimestamp(Tail(sorted), s)

RECURSIVE SortByTimestamp(_)
SortByTimestamp(snaps) ==
    IF snaps = <<>> THEN <<>>
    ELSE InsertByTimestamp(SortByTimestamp(SubSeq(snaps, 1, Len(snaps) - 1)),
                           snaps[Len(snaps)])

NoUrl == [ok |-> FALSE]

\* ArchivedUrl(...): the model object (snapshots sorted by the field
\* validator), or NoUrl where pydantic raises ValidationError
ArchivedUrl(url_id, original_url, folder_name, snapshots) ==
    IF /\ Len(url_id) >= 1 /\ Len(url_id) <= 255
       /\ ValidateUrlId(url_id)
       /\ Len(folder_name) >= 1 /\ Len(folder_name) <= 255
    THEN [ok |-> TRUE, url_id |-> url_id, original_url |-> original_url,
          folder_name |-> folder_name, snapshots |-> SortByTimestamp(snapshots)]
    ELSE NoUrl

(***************************************************************************)
(* The storage tree.  A directory lists its entries in the order iterdir() *)
(* yields them.                                                            *)
(*   storage:     [exists, is_dir, domains : Seq(domain entry)]            *)
(*   domain entry:[name, is_dir, paths : Seq(path entry)]                  *)
(*   path entry:  [name, is_dir, items : Seq(item)]                        *)
(*   item:        [name, is_dir, meta : MetaFile, files : set of names]    *)
(***************************************************************************)
ArtifactFiles == <<"archive.wacz", "metadata.json", "screenshot.png", "singlefile.html">>

\* (snapshot_dir / artifact).exists()
ArtifactExists(item, artifact) ==
    IF artifact = "metadata.json" THEN item.meta.state # "missing"
    ELSE artifact \in item.files

(***************************************************************************)
(* FilesystemStorageProvider: the scan.  A scan reads the clock at every   *)
(* _check_timeout() call.  start is _start_time; the first k calls of a    *)
(* scan read an instant within the budget and every later call reads an    *)
(* instant past it (the clock does not run backwards); n counts the calls  *)
(* made so far.                                                            *)
(***************************************************************************)
NoStart == -1

Reading(start, k, n) == IF n <= k THEN start ELSE start + timeout_seconds + 1

\* _check_timeout, with t the value of time.time()
CheckTimeout(start_time, t) ==
    IF start_time = NoStart THEN FALSE
    ELSE t - start_time > timeout_seconds

\* the URL of a capture: metadata.archive_info.url, else metadata.url, else
\* reconstructed from url_id.  [raised |-> TRUE] where .get is called on an
\* archive_info that is not an object (AttributeError).
ExtractUrl(metadata, url_id) ==
    LET found == IF DictTruthy(metadata) /\ metadata.archive_info.t # "absent"
                 THEN (IF metadata.ai_url.t = "absent" THEN JStr(<<>>) ELSE metadata.ai_url)
                 ELSE IF DictTruthy(metadata)
                 THEN (IF metadata.url.t = "absent" THEN JStr(<<>>) ELSE metadata.url)
                 ELSE JStr(<<>>)
        decoded == Unquote(Replace(url_id, "_", "/"))
        rebuilt == IF HasHttpScheme(decoded) THEN decoded ELSE Https \o decoded
    IN IF DictTruthy(metadata) /\ metadata.archive_info.t \notin {"absent", "obj"}
       THEN [raised |-> TRUE, url |-> JStr(<<>>)]
       ELSE [raised |-> FALSE, url |-> IF Truthy(found) THEN found ELSE JStr(rebuilt)]

\* the artifact list read from metadata.json when it has one, from the
\* directory otherwise
AvailableArtifactsFromMetadata(item) ==
    IF item.meta.state = "object" /\ item.meta.extra
    THEN {ArtifactFiles[i] : i \in 1..Len(ArtifactFiles)}
    ELSE {ArtifactFiles[i] : i \in {j \in 1..Len(ArtifactFiles) : ArtifactExists(item, ArtifactFiles[j])}}

\* the artifact files found in a capture directory
AvailableArtifacts(item) ==
    {ArtifactFiles[i] : i \in {j \in 1..Len(ArtifactFiles) : ArtifactExists(item, ArtifactFiles[j])}}

\* metadata.get('title', '')
Title(metadata) == IF metadata.title.t = "absent" THEN JStr(<<>>) ELSE metadata.title

\* the end of _scan_snapshot_directory, with u the URL extracted
BuildSnapshot(item, timestamp, metadata, u, folder) ==
    IF u.raised THEN NoSnapshot
    ELSE Snapshot(item.name, timestamp, u.url, Title(metadata), Append(folder, item.name),
                  metadata, AvailableArtifacts(item))

\* _scan_snapshot_directory after the name and the metadata file are parsed
ScanParsedDirectory(item, timestamp, metadata, url_id, folder) ==
    IF timestamp = NoTime THEN NoSnapshot
    ELSE BuildSnapshot(item, timestamp, metadata, ExtractUrl(metadata, url_id), folder)

\* _scan_snapshot_directory: the Snapshot, or NoSnapshot where it returns None
ScanSnapshotDirectory(item, url_id, folder) ==
    ScanParsedDirectory(item, ParseTimestamp(item.name), ParseMetadataJson(item.meta),
                        url_id, folder)

\* the entries of a path directory that are scanned as capture directories
IsRequestDirectory(item) == item.is_dir /\ StartsWith(item.name, ReqPrefix)

\* "if snapshot: snapshots.append(snapshot)"
AppendIf(snapshots, snapshot) ==
    IF snapshot.ok THEN Append(snapshots, snapshot) ELSE snapshots

\* the loop of _scan_path_directory without its _check_timeout() test
RECURSIVE ScanItemsUnchecked(_, _, _, _, _, _, _, _)
ScanItemsUnchecked(items, i, url_id, folder, start, k, n, snapshots) ==
    IF i > Len(items) THEN [snapshots |-> snapshots, n |-> n]
    ELSE IF ~IsRequestDirectory(items[i])
    THEN ScanItemsUnchecked(items, i + 1, url_id, folder, start, k, n + 1, snapshots)
    ELSE ScanItemsUnchecked(items, i + 1, url_id, folder, start, k, n + 1,
            AppendIf(snapshots, ScanSnapshotDirectory(items[i], url_id, folder)))

RECURSIVE ScanItems(_, _, _, _, _, _, _, _)
ScanItems(items, i, url_id, folder, start, k, n, snapshots) ==
    IF i > Len(items) THEN [snapshots |-> snapshots, n |-> n]
    ELSE IF CheckTimeout(start, Reading(start, k, n + 1))
    THEN [snapshots |-> snapshots, n |-> n + 1]
    ELSE IF ~IsRequestDirectory(items[i])
    THEN ScanItems(items, i + 1, url_id, folder, start, k, n + 1, snapshots)
    ELSE ScanItems(items, i + 1, url_id, folder, start, k, n + 1,
                   AppendIf(snapshots, ScanSnapshotDirectory(items[i], url_id, folder)))

\* f"{domain}_{path_segment}"
UrlId(domain, path_segment) == domain \o <<"_">> \o path_segment

\* _scan_path_directory: the snapshots found, in directory order
ScanPathDirectory(path_dir, domain, start, k, n) ==
    ScanItems(path_dir.items, 1, UrlId(domain, path_dir.name),
              <<domain, path_dir.name>>, start, k, n, <<>>)

\* the test "if not snapshots" left out
HasSnapshotsAlways(snapshots) == TRUE

\* "if not snapshots: continue"
HasSnapshots(snapshots) == snapshots # <<>>

\* snapshots.sort(key=lambda s: s.timestamp, reverse=True)
SortSnapshots(snapshots) == SortByTimestamp(snapshots)

\* snapshots[0].url if snapshots else f"https://{domain.replace('_', '.')}"
OriginalUrl(snapshots, domain) ==
    IF snapshots # <<>> THEN snapshots[1].url ELSE Https \o Replace(domain, "_", ".")

\* the ArchivedUrl of a path directory with the sorted snapshots
BuildArchivedUrl(path_dir, domain, snapshots) ==
    ArchivedUrl(UrlId(domain, path_dir.name), OriginalUrl(snapshots, domain),
                domain \o <<"/">> \o path_dir.name, snapshots)

RECURSIVE ScanPaths(_, _, _, _, _, _, _)
\* the end of a pass of the loop: archived_urls.append(archived_url); a
\* ValidationError of ArchivedUrl(...) leaves the loop, "except Exception" is
\* around it
ScanPathsAppend(paths, i, domain, start, k, n, archived_url, archived_urls) ==
    IF ~archived_url.ok THEN [archived_urls |-> archived_urls, n |-> n]
    ELSE ScanPaths(paths, i + 1, domain, start, k, n, Append(archived_urls, archived_url))

\* a pass of the loop after _scan_path_directory has returned r
ScanPathsFound(paths, i, domain, start, k, r, archived_urls) ==
    IF ~HasSnapshots(r.snapshots)
    THEN ScanPaths(paths, i + 1, domain, start, k, r.n, archived_urls)
    ELSE ScanPathsAppend(paths, i, domain, start, k, r.n,
                         BuildArchivedUrl(paths[i], domain, SortSnapshots(r.snapshots)),
                         archived_urls)

ScanPaths(paths, i, domain, start, k, n, archived_urls) ==
    IF i > Len(paths) THEN [archived_urls |-> archived_urls, n |-> n]
    ELSE IF CheckTimeout(start, Reading(start, k, n + 1))
    THEN [archived_urls |-> archived_urls, n |-> n + 1]
    ELSE IF ~paths[i].is_dir
    THEN ScanPaths(paths, i + 1, domain, start, k, n + 1, archived_urls)
    ELSE ScanPathsFound(paths, i, domain, start, k,
                        ScanPathDirectory(paths[i], domain, start, k, n + 1),
                        archived_urls)

\* _scan_domain_directory: the ArchivedUrls of a domain, in directory order
ScanDomainDirectory(domain_dir, start, k, n) ==
    ScanPaths(domain_dir.paths, 1, domain_dir.name, start, k, n, <<>>)

\* the empty dict of ArchivedUrls
EmptyCatalog == [x \in {} |-> x]

\* an assignment that keeps the value a key already has
PutKeepsFirst(catalog, archived_url) ==
    [x \in DOMAIN catalog \cup {archived_url.url_id} |->
        IF x \in DOMAIN catalog THEN catalog[x] ELSE archived_url]

\* archived_urls[archived_url.url_id] = archived_url
Put(catalog, archived_url) ==
    [x \in DOMAIN catalog \cup {archived_url.url_id} |->
        IF x = archived_url.url_id THEN archived_url ELSE catalog[x]]

RECURSIVE PutAll(_, _)
PutAll(catalog, domain_urls) ==
    IF domain_urls = <<>> THEN catalog
    ELSE PutAll(Put(catalog, Head(domain_urls)), Tail(domain_urls))

RECURSIVE ScanDomains(_, _, _, _, _, _)
\* a pass of the loop after _scan_domain_directory has returned r
ScanDomainsFound(domains, i, start, k, r, archived_urls) ==
    ScanDomains(domains, i + 1, start, k, r.n, PutAll(archived_urls, r.archived_urls))

ScanDomains(domains, i, start, k, n, archived_urls) ==
    IF i > Len(domains) THEN [urls |-> archived_urls, n |-> n]
    ELSE IF CheckTimeout(start, Reading(start, k, n + 1))
    THEN [urls |-> archived_urls, n |-> n + 1]
    ELSE IF ~domains[i].is_dir
    THEN ScanDomains(domains, i + 1, start, k, n + 1, archived_urls)
    ELSE ScanDomainsFound(domains, i, start, k,
                          ScanDomainDirectory(domains[i], start, k, n + 1), archived_urls)

\* _scan_storage: urls is the dict returned, n the number of clock readings
ScanStorage(storage, start, k) ==
    IF ~storage.exists \/ ~storage.is_dir THEN [urls |-> EmptyCatalog, n |-> 0]
    ELSE ScanDomains(storage.domains, 1, start, k, 0, EmptyCatalog)

(***************************************************************************)
(* StorageScanner (storage/scanner.py), the scanner of the listing         *)
(* endpoint: dataclasses instead of validated models.  t is the instant    *)
(* its _check_timeout() calls read.                                        *)
(***************************************************************************)
ScannerTimeoutSeconds == 10

\* StorageScanner._check_timeout
ScannerCheckTimeout(start_time, t) ==
    IF start_time = NoStart THEN FALSE
    ELSE t - start_time > ScannerTimeoutSeconds

\* the artifact list Snapshot.__post_init__ builds
ScannerArtifacts(item) ==
    SelectSeq(ArtifactFiles, LAMBDA artifact : ArtifactExists(item, artifact))

\* the dataclass Snapshot(...) at the end of _scan_snapshot_directory
ScannerBuildSnapshot(item, timestamp, metadata, u, folder) ==
    IF u.raised THEN NoSnapshot
    ELSE [ok |-> TRUE, snapshot_id |-> item.name, timestamp |-> timestamp,
          folder_path |-> Append(folder, item.name), metadata |-> metadata,
          url |-> u.url, title |-> Title(metadata),
          available_artifacts |-> ScannerArtifacts(item)]

ScannerScanParsedDirectory(item, timestamp, metadata, url_id, folder) ==
    IF timestamp = NoTime THEN NoSnapshot
    ELSE ScannerBuildSnapshot(item, timestamp, metadata, ExtractUrl(metadata, url_id), folder)

\* StorageScanner._scan_snapshot_directory
ScannerScanSnapshotDirectory(item, url_id, folder) ==
    ScannerScanParsedDirectory(item, ParseTimestamp(item.name),
                               ParseMetadataJson(item.meta), url_id, folder)

\* StorageScanner._scan_path_directory
RECURSIVE ScannerScanItems(_, _, _, _, _, _, _)
ScannerScanItems(items, i, url_id, folder, start, t, snapshots) ==
    IF i > Len(items) THEN snapshots
    ELSE IF ScannerCheckTimeout(start, t) THEN snapshots
    ELSE IF ~IsRequestDirectory(items[i])
    THEN ScannerScanItems(items, i + 1, url_id, folder, start, t, snapshots)
    ELSE ScannerScanItems(items, i + 1, url_id, folder, start, t,
            AppendIf(snapshots, ScannerScanSnapshotDirectory(items[i], url_id, folder)))

\* the dataclass ArchivedUrl(...) of a path directory with the sorted snapshots
ScannerBuildArchivedUrl(path_dir, domain, snapshots) ==
    [url_id |-> UrlId(domain, path_dir.name),
     original_url |-> snapshots[1].url,
     folder_name |-> domain \o <<"/">> \o path_dir.name,
     snapshots |-> snapshots]

\* StorageScanner._scan_domain_directory
RECURSIVE ScannerScanPaths(_, _, _, _, _, _)
\* a pass of the loop after _scan_path_directory has returned snapshots
ScannerScanPathsFound(paths, i, domain, start, t, snapshots, archived_urls) ==
    IF snapshots = <<>>
    THEN ScannerScanPaths(paths, i + 1, domain, start, t, archived_urls)
    ELSE ScannerScanPaths(paths, i + 1, domain, start, t,
            Append(archived_urls,
                   ScannerBuildArchivedUrl(paths[i], domain, SortByTimestamp(snapshots))))

ScannerScanPaths(paths, i, domain, start, t, archived_urls) ==
    IF i > Len(paths) THEN archived_urls
    ELSE IF ScannerCheckTimeout(start, t) THEN archived_urls
    ELSE IF ~paths[i].is_dir
    THEN ScannerScanPaths(paths, i + 1, domain, start, t, archived_urls)
    ELSE ScannerScanPathsFound(paths, i, domain, start, t,
            ScannerScanItems(paths[i].items, 1, UrlId(domain, paths[i].name),
                             <<domain, paths[i].name>>, start, t, <<>>),
            archived_urls)

\* archived_urls[archived_url.url_id] = archived_url, the dict kept in
\* insertion order
ScannerPut(values, archived_url) ==
    IF \A i \in 1..Len(values) : values[i].url_id # archived_url.url_id
    THEN Append(values, archived_url)
    ELSE [values EXCEPT ![CHOOSE i \in 1..Len(values) :
                            values[i].url_id = archived_url.url_id] = archived_url]

RECURSIVE ScannerPutAll(_, _)
ScannerPutAll(values, domain_urls) ==
    IF domain_urls = <<>> THEN values
    ELSE ScannerPutAll(ScannerPut(values, Head(domain_urls)), Tail(domain_urls))

RECURSIVE ScannerScanDomains(_, _, _, _, _)
ScannerScanDomains(domains, i, start, t, values) ==
    IF i > Len(domains) THEN values
    ELSE IF ScannerCheckTimeout(start, t) THEN values
    ELSE IF ~domains[i].is_dir
    THEN ScannerScanDomains(domains, i + 1, start, t, values)
    ELSE ScannerScanDomains(domains, i + 1, start, t,
            ScannerPutAll(values, ScannerScanPaths(domains[i].paths, 1, domains[i].name,
                                                   start, t, <<>>)))

\* list(StorageScanner(storage_path).scan().values())
ScannerScan(storage, start, t) ==
    IF ~storage.exists \/ ~storage.is_dir THEN <<>>
    ELSE ScannerScanDomains(storage.domains, 1, start, t, <<>>)

(***************************************************************************)
(* Names, metadata documents and storage trees the model draws from.       *)
(***************************************************************************)
Date15 == <<"2", "0", "2", "4", "0", "3", "1", "5">>

Date16 == <<"2", "0", "2", "4", "0", "3", "1", "6">>

Time14 == <<"1", "4", "3", "0", "2", "2">>

Time12 == <<"1", "2", "0", "0", "0", "0">>

\* req_{id}_{date}_{time}
ReqName(id, date, time) == ReqPrefix \o id \o <<"_">> \o date \o <<"_">> \o time

UrlX == <<"h", "t", "t", "p", "s", ":", "/", "/", "x", ".", "o", "r", "g">>

UrlY == <<"h", "t", "t", "p", ":", "/", "/", "y">>

UrlFtp == <<"f", "t", "p", ":", "/", "/", "x">>

NoMeta == MetaFile("missing", JAbsent, JAbsent, JAbsent, JAbsent, FALSE)

\* {"archive_info": {"url": "https://x.org"}, "title": "t", "artifacts_created": [...]}
GoodMeta == MetaFile("object", J("obj", <<>>), JStr(UrlX), JAbsent, JStr(<<"t">>), TRUE)

Item(name, is_dir, meta, files) ==
    [name |-> name, is_dir |-> is_dir, meta |-> meta, files |-> files]

\* a capture directory as the archiver writes it
GoodItem(name) == Item(name, TRUE, GoodMeta, {"archive.wacz", "screenshot.png", "singlefile.html"})

NameA == ReqName(<<"a">>, Date15, Time14)                    \* req_a_20240315_143022

NameB == ReqName(<<"b">>, Date15, Time14)                    \* req_b_20240315_143022

NameC == ReqName(<<"a", "-", "b", "_", "c">>, Date16, Time12)  \* req_a-b_c_20240316_120000

NameNoId == ReqPrefix \o Date15 \o <<"_">> \o Time12           \* req_20240315_120000

NameBad == ReqPrefix \o <<"b", "a", "d">>                      \* req_bad

NameLegacy == Date16 \o <<"T">> \o Time14 \o <<"Z">>           \* 20240316T143022Z

NameNotes == <<"n", "o", "t", "e", "s">>                       \* notes

\* the entries a path-segment directory may hold
ItemPool == {
    Item(NameA, TRUE, NoMeta, {}),
    GoodItem(NameA),
    \* {"archive_info": {"url": "ftp://x"}}
    Item(NameA, TRUE, MetaFile("object", J("obj", <<>>), JStr(UrlFtp), JAbsent, JAbsent, FALSE), {}),
    \* {"archive_info": "u", "url": "http://y"}
    Item(NameA, TRUE, MetaFile("object", JStr(<<"u">>), JAbsent, JStr(UrlY), JAbsent, FALSE), {}),
    \* not JSON
    Item(NameA, TRUE, MetaFile("malformed", JAbsent, JAbsent, JAbsent, JAbsent, FALSE),
         {"screenshot.png"}),
    Item(NameA, FALSE, NoMeta, {}),
    \* {"url": "http://y"}
    Item(NameB, TRUE, MetaFile("object", JAbsent, JAbsent, JStr(UrlY), JAbsent, FALSE), {}),
    GoodItem(NameC),
    Item(NameNoId, TRUE, NoMeta, {}),
    GoodItem(NameBad),
    GoodItem(NameLegacy),
    Item(NameNotes, FALSE, NoMeta, {})}

\* the listings of at most MaxItems entries, names distinct
RECURSIVE Listings(_)
Listings(len) ==
    IF len = 0 THEN {<<>>}
    ELSE LET shorter == Listings(len - 1)
         IN shorter \cup
            {Append(l, it) : l \in {x \in shorter : Len(x) = len - 1},
                             it \in ItemPool} 

DistinctNames(l) == \A i, j \in 1..Len(l) : i # j => l[i].name # l[j].name

PathEntry(name, is_dir, items) == [name |-> name, is_dir |-> is_dir, items |-> items]

DomainEntry(name, is_dir, paths) == [name |-> name, is_dir |-> is_dir, paths |-> paths]

Storage(exists, is_dir, domains) == [exists |-> exists, is_dir |-> is_dir, domains |-> domains]

\* a path segment listing an older capture before a newer one
FixedPath(name) ==
    PathEntry(name, TRUE, <<GoodItem(ReqName(<<"y">>, Date15, Time14)),
                            GoodItem(ReqName(<<"z">>, Date16, Time12))>>)

\* the storage trees around a path-segment directory with the listing l
Layouts(l) == {
    \* path segments and files in a domain, domains and a file in the root
    Storage(TRUE, TRUE,
        <<DomainEntry(<<"f">>, FALSE, <<>>),
          DomainEntry(<<"a">>, TRUE, <<PathEntry(<<"g">>, FALSE, <<>>),
                                       PathEntry(<<"b">>, TRUE, l),
                                       FixedPath(<<"c">>)>>),
          DomainEntry(<<"d">>, TRUE, <<FixedPath(<<"e">>)>>)>>),
    \* a_b/c after a/b_c: both have the id a_b_c
    Storage(TRUE, TRUE,
        <<DomainEntry(<<"a">>, TRUE, <<FixedPath(<<"b", "_", "c">>)>>),
          DomainEntry(<<"a", "_", "b">>, TRUE, <<PathEntry(<<"c">>, TRUE, l)>>)>>),
    \* a domain directory named x.y: its ids fail validate_url_id
    Storage(TRUE, TRUE,
        <<DomainEntry(<<"x", ".", "y">>, TRUE, <<PathEntry(<<"b">>, TRUE, l),
                                                 FixedPath(<<"c">>)>>)>>),
    \* a path segment named c.d, whose id fails validate_url_id, before a/b
    Storage(TRUE, TRUE,
        <<DomainEntry(<<"a">>, TRUE, <<FixedPath(<<"c", ".", "d">>),
                                       PathEntry(<<"b">>, TRUE, l)>>),
          DomainEntry(<<"d">>, TRUE, <<FixedPath(<<"e">>)>>)>>),
    \* no storage root, and a root that is a file
    Storage(FALSE, FALSE, <<>>),
    Storage(TRUE, FALSE, <<>>)}

ScanStorages ==
    UNION {Layouts(l) : l \in {x \in Listings(MaxItems) : DistinctNames(x)}}

\* the number of entries of a storage tree: a scan reads the clock once per
\* entry it visits, so a scan whose first EntryCount readings are within the
\* budget does not time out
RECURSIVE PathsEntryCount(_)
PathsEntryCount(paths) ==
    IF paths = <<>> THEN 0
    ELSE 1 + Len(Head(paths).items) + PathsEntryCount(Tail(paths))

RECURSIVE DomainsEntryCount(_)
DomainsEntryCount(domains) ==
    IF domains = <<>> THEN 0
    ELSE 1 + PathsEntryCount(Head(domains).paths) + DomainsEntryCount(Tail(domains))

EntryCount(storage) == DomainsEntryCount(storage.domains)

(***************************************************************************)
(* The storage trees of the cache specifications: the archive before and   *)
(* after the archiver has written a second capture of a/b and a first      *)
(* capture of d/e.                                                         *)
(***************************************************************************)
ArchiveStages ==
    <<Storage(TRUE, TRUE,
        <<DomainEntry(<<"a">>, TRUE, <<PathEntry(<<"b">>, TRUE, <<GoodItem(NameA)>>)>>)>>),
      Storage(TRUE, TRUE,
        <<DomainEntry(<<"a">>, TRUE,
            <<PathEntry(<<"b">>, TRUE, <<GoodItem(NameA), GoodItem(NameC)>>)>>),
          DomainEntry(<<"d">>, TRUE,
            <<PathEntry(<<"e">>, TRUE, <<GoodItem(NameB)>>)>>)>>)>>

\* the archive holds up to MaxResources Resources
MaxResources == 3

\* the name of the i-th domain directory: a, aa, aaa, ...
DomainName(i) == [x \in 1..i |-> "a"]

\* the path segment of the i-th domain: two captures for an odd i, one for an
\* even i
ListPath(i) ==
    IF i % 2 = 1 THEN FixedPath(<<"b">>)
    ELSE PathEntry(<<"b">>, TRUE, <<GoodItem(NameA)>>)

\* an archive of n Resources
ListTree(n) ==
    Storage(TRUE, TRUE, [i \in 1..n |-> DomainEntry(DomainName(i), TRUE, <<ListPath(i)>>)])

\* an archive whose only capture carries a URL that is not an HTTP URL
FtpTree ==
    Storage(TRUE, TRUE,
        <<DomainEntry(<<"a">>, TRUE,
            <<PathEntry(<<"b">>, TRUE,
                <<Item(NameA, TRUE,
                       MetaFile("object", J("obj", <<>>), JStr(UrlFtp), JAbsent, JAbsent, FALSE),
                       {})>>)>>)>>)

ListTrees == {ListTree(n) : n \in 0..MaxResources} \cup {FtpTree, Storage(FALSE, FALSE, <<>>)}

\* the archive of n Resources the storage is
ResourcesOf(storage) == {n \in 0..MaxResources : ListTree(n) = storage}

StageOf(storage) == {i \in DOMAIN ArchiveStages : ArchiveStages[i] = storage}

\* ScanStorage, ScanDomainDirectory and ScannerScan of these trees when no
\* clock reading exceeds the budget, computed once: start and the readings
\* enter a scan only through _check_timeout
StageScanStorage ==
    [i \in DOMAIN ArchiveStages |->
        ScanStorage(ArchiveStages[i], 0, EntryCount(ArchiveStages[i]))]

StageScanDomainDirectory ==
    [i \in DOMAIN ArchiveStages |->
        [j \in DOMAIN ArchiveStages[i].domains |->
            ScanDomainDirectory(ArchiveStages[i].domains[j], 0,
                                EntryCount(ArchiveStages[i]), 0).archived_urls]]

StageScannerScan ==
    [i \in DOMAIN ArchiveStages |-> ScannerScan(ArchiveStages[i], 0, 0)]

ListTreeScannerScan ==
    [n \in 0..MaxResources |-> ScannerScan(ListTree(n), 0, 0)]

\* _scan_storage() started at start, with k readings within the budget
ScanStorageAt(storage, start, k) ==
    IF StageOf(storage) # {} /\ k = EntryCount(storage)
    THEN StageScanStorage[CHOOSE i \in StageOf(storage) : TRUE]
    ELSE ScanStorage(storage, start, k)

\* StorageScanner(storage_path).scan() started at start, reading the clock at t
ScannerScanAt(storage, start, t) ==
    IF StageOf(storage) # {} /\ ~ScannerCheckTimeout(start, t)
    THEN StageScannerScan[CHOOSE i \in StageOf(storage) : TRUE]
    ELSE IF ResourcesOf(storage) # {} /\ ~ScannerCheckTimeout(start, t)
    THEN ListTreeScannerScan[CHOOSE n \in ResourcesOf(storage) : TRUE]
    ELSE ScannerScan(storage, start, t)

\* the seconds a scan may take beyond the earliest instant it can end
ScanDelays == {0, 1}

Ttls == (-1)..MaxTtl

Threads == {1, 2}

(***************************************************************************)
(* State.                                                                  *)
(***************************************************************************)
VARIABLES
    fs,                         \* the storage tree on disk
    now,                        \* time.time()
    scans,                      \* number of _scan_storage invocations so far
    _cached_results,            \* FilesystemStorageProvider._cached_results
    _start_time,                \* FilesystemStorageProvider._start_time
    scan_info,                  \* of the last provider.get_all_urls: the tree it read, the
                                \* clock readings within its budget, whether it timed out,
                                \* whether it raised StorageError
    provider_type,              \* the kind of StorageProvider the service is built on
    cache_ttl_seconds,          \* StorageService.cache_ttl_seconds
    _cached_urls,               \* StorageService._cached_urls
    _cache_timestamp,           \* StorageService._cache_timestamp
    _scanner_cache_ttl,         \* api/urls.py, from SCANNER_CACHE_TTL
    _scanner_cache_timestamp,   \* api/urls.py
    lru,                        \* the lru_cache of _get_scanner_results_internal
    scanner_scans,              \* number of StorageScanner.scan invocations so far
    last,                       \* the last call completed: its name and what it returned
    pc,                         \* of each thread: where it is in get_all_urls
    frame,                      \* of each thread: the locals of its call
    produced                    \* the dict each finished _scan_storage returned, by ref

providerVars == <<scans, _cached_results, _start_time, scan_info>>

serviceVars == <<_cached_urls, _cache_timestamp>>

scannerVars == <<_scanner_cache_timestamp, lru, scanner_scans>>

configVars == <<provider_type, cache_ttl_seconds, _scanner_cache_ttl>>

threadVars == <<pc, frame, produced>>

vars == <<fs, now, scans, _cached_results, _start_time, scan_info, provider_type,
          cache_ttl_seconds,
          _cached_urls, _cache_timestamp, _scanner_cache_ttl, _scanner_cache_timestamp,
          lru, scanner_scans, last, pc, frame, produced>>

\* A Catalog object: the dict a scan returned.  ref identifies the object
\* (the number of the scan that allocated it); ref 0 is None.
NoCatalog == [ref |-> 0, urls |-> EmptyCatalog]

Catalog(ref, urls) == [ref |-> ref, urls |-> urls]

\* the list object _get_scanner_results_internal returned; ref 0: nothing cached
NoList == [ref |-> 0, values |-> <<>>]

NoScanInfo ==
    [storage |-> Storage(FALSE, FALSE, <<>>), timed_out |-> FALSE, budget |-> 0,
     raised |-> FALSE]

\* the outcome of a call that raised StorageError
StorageError == [raised |-> "StorageError"]

NoCall == [op |-> "none", flip |-> 0, ret |-> NoCatalog, at |-> 0, found |-> "Empty"]

\* the record of a completed call: what it returned, when it returned, and
\* the state it found the cache entry in; flip tells two equal calls in a row
\* apart
Called(op, ret, found) ==
    [op |-> op, flip |-> 1 - last.flip, ret |-> ret, at |-> now', found |-> found]

\* the state of the Cache Entry of the service at t: Empty, Fresh or Stale
EntryState(t) ==
    IF _cached_urls = NoCatalog THEN "Empty"
    ELSE IF cache_ttl_seconds <= 0 \/ t - _cache_timestamp > cache_ttl_seconds THEN "Stale"
    ELSE "Fresh"

\* the state of the Cache Entry of the listing endpoint at t
ScannerEntryState(t) ==
    IF lru = NoList THEN "Empty"
    ELSE IF _scanner_cache_ttl <= 0 \/ t - _scanner_cache_timestamp > _scanner_cache_ttl
    THEN "Stale"
    ELSE "Fresh"

NoFrame == [ref |-> 0, urls |-> EmptyCatalog, i |-> 0, count |-> 0, ret |-> NoCatalog]

\* the provider of the application: create_storage_provider builds a
\* FilesystemStorageProvider
ProviderInit ==
    /\ provider_type = "filesystem"
    /\ scans = 0
    /\ _cached_results = NoCatalog
    /\ _start_time = NoStart
    /\ scan_info = NoScanInfo

\* StorageService.__init__
ServiceInit(ttl) ==
    /\ cache_ttl_seconds = ttl
    /\ _cached_urls = NoCatalog
    /\ _cache_timestamp = 0

\* the module globals of api/urls.py
ScannerCacheInit(ttl) ==
    /\ _scanner_cache_ttl = ttl
    /\ _scanner_cache_timestamp = 0
    /\ lru = NoList
    /\ scanner_scans = 0

ThreadsInit ==
    /\ pc = [t \in Threads |-> "idle"]
    /\ frame = [t \in Threads |-> NoFrame]
    /\ produced = EmptyCatalog

\* the end of FilesystemStorageProvider.get_all_urls, with r what
\* _scan_storage returned
ProviderScanned(r, k, d) ==
    /\ now' = (IF r.n > k THEN now + timeout_seconds + 1 ELSE now) + d
    /\ now' <= MaxTime
    /\ scans < MaxScans
    /\ scans' = scans + 1
    /\ _start_time' = now
    /\ _cached_results' = Catalog(scans + 1, r.urls)
    /\ scan_info' = [storage |-> fs, timed_out |-> r.n > k, budget |-> k, raised |-> FALSE]
    /\ UNCHANGED fs

\* get_all_urls that raises StorageError when there is no root directory
ProviderGetAllUrlsRootRequired(k, d) ==
    IF fs.exists /\ fs.is_dir
    THEN ProviderScanned(ScanStorageAt(fs, now, k), k, d)
    ELSE /\ scans < MaxScans
         /\ scans' = scans + 1
         /\ _start_time' = now
         /\ scan_info' = [storage |-> fs, timed_out |-> FALSE, budget |-> k, raised |-> TRUE]
         /\ UNCHANGED <<fs, now, _cached_results>>

\* FilesystemStorageProvider.get_all_urls, run to completion: k clock readings
\* of the scan fall within the budget, and the scan ends d after the earliest
\* instant at which it can end
ProviderGetAllUrls(k, d) == ProviderScanned(ScanStorageAt(fs, now, k), k, d)

(***************************************************************************)
(* The scanner alone, over every storage tree of the model.                *)
(***************************************************************************)
InitScan ==
    /\ fs \in ScanStorages
    /\ now = StartTime
    /\ ProviderInit
    /\ ServiceInit(MaxTtl)
    /\ ScannerCacheInit(MaxTtl)
    /\ last = NoCall
    /\ ThreadsInit

\* what provider.get_all_urls gave its caller: the dict, or StorageError
\* ("except Exception as e: raise StorageError(...) from e")
ProviderOutcome == IF scan_info'.raised THEN StorageError ELSE _cached_results'

\* the first scan of a provider, called directly
FirstProviderScan ==
    /\ _cached_results = NoCatalog
    /\ \E k \in 0..EntryCount(fs) : ProviderGetAllUrls(k, 0)
    /\ last' = Called("provider.get_all_urls", ProviderOutcome, "Empty")
    /\ UNCHANGED <<serviceVars, scannerVars, configVars, threadVars>>

(***************************************************************************)
(* StorageService over the provider, and the cache of the listing          *)
(* endpoint, called one call at a time.                                    *)
(***************************************************************************)
\* the test of _is_cache_expired with >= for >
IsCacheExpiredAtTtl(t) ==
    IF cache_ttl_seconds <= 0 THEN TRUE
    ELSE t - _cache_timestamp >= cache_ttl_seconds

\* _is_cache_expired without the test for a disabled cache
IsCacheExpiredByAge(t) == t - _cache_timestamp > cache_ttl_seconds

\* _is_cache_expired with only the test for a disabled cache
IsCacheExpiredDisabled(t) == cache_ttl_seconds <= 0

\* StorageService._is_cache_expired, with t the value of time.time()
IsCacheExpired(t) ==
    IF cache_ttl_seconds <= 0 THEN TRUE
    ELSE t - _cache_timestamp > cache_ttl_seconds

\* the scans of the cache specifications are complete: every clock reading
\* is within the budget
ScanBudgets(storage) == {EntryCount(storage)}

\* _refresh_cache that drops the cached Catalog when the provider raises
RefreshCacheDroppingOnFailure(provider_get_all_urls) ==
    /\ provider_get_all_urls
    /\ IF scan_info'.raised
       THEN /\ _cached_urls' = NoCatalog
            /\ _cache_timestamp' = 0
            /\ last' = Called("get_all_urls", StorageError, EntryState(now))
       ELSE /\ _cached_urls' = _cached_results'
            /\ _cache_timestamp' = now'
            /\ last' = Called("get_all_urls", _cached_urls', EntryState(now))

\* StorageService._refresh_cache over a provider, given as the step its
\* get_all_urls() takes
RefreshCacheFrom(provider_get_all_urls) ==
    /\ provider_get_all_urls
    /\ IF scan_info'.raised
       THEN \* "except Exception as e: raise StorageError(...) from e"
            /\ UNCHANGED serviceVars
            /\ last' = Called("get_all_urls", StorageError, EntryState(now))
       ELSE /\ _cached_urls' = _cached_results'
            /\ _cache_timestamp' = now'
            /\ last' = Called("get_all_urls", _cached_urls', EntryState(now))

\* StorageService.get_all_urls over a provider
GetAllUrlsFrom(provider_get_all_urls) ==
    /\ IF _cached_urls = NoCatalog \/ IsCacheExpired(now)
       THEN RefreshCacheFrom(provider_get_all_urls)
       ELSE /\ UNCHANGED <<fs, now, providerVars, serviceVars>>
            /\ last' = Called("get_all_urls", _cached_urls, EntryState(now))
    /\ UNCHANGED <<scannerVars, configVars, threadVars>>

\* StorageService._refresh_cache over the filesystem provider
RefreshCache ==
    RefreshCacheFrom(\E k \in ScanBudgets(fs), d \in ScanDelays : ProviderGetAllUrls(k, d))

\* StorageService.get_all_urls over the filesystem provider
GetAllUrls ==
    GetAllUrlsFrom(\E k \in ScanBudgets(fs), d \in ScanDelays : ProviderGetAllUrls(k, d))

\* the first scan of a provider, through StorageService.get_all_urls
FirstServiceScan ==
    /\ _cached_results = NoCatalog
    /\ GetAllUrls

NextScan == FirstProviderScan \/ FirstServiceScan

SpecScan == InitScan /\ [][NextScan]_vars

\* clear_cache that keeps the timestamp
ClearCacheKeepsTimestamp ==
    /\ _cached_urls' = NoCatalog
    /\ UNCHANGED <<fs, now, providerVars, _cache_timestamp, scannerVars, configVars, threadVars>>
    /\ last' = Called("clear_cache", NoCatalog, EntryState(now))

\* StorageService.clear_cache
ClearCache ==
    /\ _cached_urls' = NoCatalog
    /\ _cache_timestamp' = 0
    /\ UNCHANGED <<fs, now, providerVars, scannerVars, configVars, threadVars>>
    /\ last' = Called("clear_cache", NoCatalog, EntryState(now))

\* the dict get_cache_stats returns, with t the value of time.time()
CacheStats(t) ==
    [cache_age_seconds |-> t - _cache_timestamp,
     ttl_seconds |-> cache_ttl_seconds,
     cache_expired |-> IsCacheExpired(t),
     cache_disabled |-> cache_ttl_seconds <= 0,
     cached_urls_count |-> IF _cached_urls # NoCatalog /\ DOMAIN _cached_urls.urls # {}
                           THEN Cardinality(DOMAIN _cached_urls.urls) ELSE 0,
     last_refresh_timestamp |-> _cache_timestamp]

\* get_cache_stats that takes the reading as a refresh
GetCacheStatsStamping ==
    /\ _cache_timestamp' = now
    /\ UNCHANGED <<fs, now, providerVars, _cached_urls, scannerVars, configVars, threadVars>>
    /\ last' = Called("get_cache_stats", CacheStats(now), EntryState(now))

\* StorageService.get_cache_stats
GetCacheStats ==
    /\ UNCHANGED <<fs, now, providerVars, serviceVars, scannerVars, configVars, threadVars>>
    /\ last' = Called("get_cache_stats", CacheStats(now), EntryState(now))

\* the test of get_cached_scanner_results, with t the value of time.time()
ScannerCacheExpired(t) ==
    _scanner_cache_ttl = 0 \/ t - _scanner_cache_timestamp > _scanner_cache_ttl

\* get_cached_scanner_results: cache_clear() and a new timestamp on expiry,
\* then _get_scanner_results_internal(), which scans unless the lru_cache
\* holds a list
CachedScannerResults ==
    LET expired == ScannerCacheExpired(now)
        cached == IF expired THEN NoList ELSE lru
    IN /\ _scanner_cache_timestamp' = IF expired THEN now ELSE _scanner_cache_timestamp
       /\ IF cached = NoList
          THEN \E d \in ScanDelays :
                 /\ now + d <= MaxTime
                 /\ scanner_scans < MaxScans
                 /\ scanner_scans' = scanner_scans + 1
                 /\ lru' = [ref |-> scanner_scans + 1, values |-> ScannerScanAt(fs, now, now + d)]
                 /\ now' = now + d
          ELSE UNCHANGED <<lru, scanner_scans, now>>
       /\ UNCHANGED <<fs, providerVars, serviceVars, configVars, threadVars>>

\* get_cached_scanner_results(), called on its own
GetCachedScannerResults ==
    /\ CachedScannerResults
    /\ last' = Called("get_cached_scanner_results", lru', ScannerEntryState(now))

\* clear_scanner_cache
ClearScannerCache ==
    /\ lru' = NoList
    /\ _scanner_cache_timestamp' = 0
    /\ UNCHANGED <<fs, now, providerVars, serviceVars, configVars, threadVars, scanner_scans>>
    /\ last' = Called("clear_scanner_cache", NoList, ScannerEntryState(now))

\* a second passes
Tick ==
    /\ now < MaxTime
    /\ now' = now + 1
    /\ UNCHANGED <<fs, providerVars, serviceVars, scannerVars, configVars, threadVars, last>>

\* the archiver writes new captures
Archive ==
    /\ fs = ArchiveStages[1]
    /\ fs' = ArchiveStages[2]
    /\ UNCHANGED <<now, providerVars, serviceVars, scannerVars, configVars, threadVars, last>>

Init ==
    /\ fs = ArchiveStages[1]
    /\ now = StartTime
    /\ ProviderInit
    /\ \E ttl \in Ttls : ServiceInit(ttl) /\ ScannerCacheInit(ttl)
    /\ last = NoCall
    /\ ThreadsInit

Next ==
    \/ GetAllUrls
    \/ ClearCache
    \/ GetCacheStats
    \/ GetCachedScannerResults
    \/ ClearScannerCache
    \/ Tick
    \/ Archive

Spec == Init /\ [][Next]_vars

(***************************************************************************)
(* StorageService.get_all_urls called from several threads.  A step is one *)
(* read or write of an attribute of the service or the provider, or the    *)
(* scan of one domain directory into the dict local to _scan_storage.  No  *)
(* lock is taken anywhere on the path.  The clock stands still: the calls  *)
(* overlap within one instant.                                             *)
(***************************************************************************)
Goto(t, label) == pc' = [pc EXCEPT ![t] = label]

\* "self._cached_urls is None", the first operand of the test of get_all_urls
Call(t) ==
    /\ pc[t] = "idle"
    /\ Goto(t, IF _cached_urls = NoCatalog THEN "refresh" ELSE "expired")
    /\ UNCHANGED <<fs, now, providerVars, serviceVars, scannerVars, configVars, last,
                   frame, produced>>

\* "self._is_cache_expired()", the second operand
Expired(t) ==
    /\ pc[t] = "expired"
    /\ Goto(t, IF IsCacheExpired(now) THEN "refresh" ELSE "cached")
    /\ UNCHANGED <<fs, now, providerVars, serviceVars, scannerVars, configVars, last,
                   frame, produced>>

\* "return self._cached_urls" of get_all_urls
ReturnCached(t) ==
    /\ pc[t] = "cached"
    /\ frame' = [frame EXCEPT ![t].ret = _cached_urls]
    /\ Goto(t, "done")
    /\ UNCHANGED <<fs, now, providerVars, serviceVars, scannerVars, configVars, last,
                   produced>>

\* _scan_storage up to its loop: the start time, a new dict, the listing of
\* the root; start keeps the instant this invocation wrote to _start_time
ScanStart(t) ==
    /\ pc[t] = "refresh"
    /\ scans < MaxScans
    /\ scans' = scans + 1
    /\ _start_time' = now
    /\ frame' = [frame EXCEPT ![t] =
                    [ref |-> scans + 1, urls |-> EmptyCatalog, i |-> 1,
                     count |-> IF fs.exists /\ fs.is_dir THEN Len(fs.domains) ELSE 0,
                     ret |-> NoCatalog, start |-> now]]
    /\ Goto(t, "scan")
    /\ UNCHANGED <<fs, now, _cached_results, scan_info, serviceVars, scannerVars,
                   configVars, last, produced>>

\* _scan_domain_directory(domain_dir) of the i-th domain of the tree
DomainUrls(storage, i, start) ==
    IF StageOf(storage) # {}
    THEN StageScanDomainDirectory[CHOOSE s \in StageOf(storage) : TRUE][i]
    ELSE ScanDomainDirectory(storage.domains[i], start, EntryCount(storage), 0).archived_urls

\* one pass of the loop of _scan_storage that also stores the dict it fills
\* in the service
ScanDomainShared(t) ==
    /\ pc[t] = "scan"
    /\ frame[t].i <= frame[t].count
    /\ frame' = [frame EXCEPT ![t] =
                    IF CheckTimeout(_start_time, now)
                    THEN [@ EXCEPT !.i = frame[t].count + 1]
                    ELSE IF ~fs.domains[@.i].is_dir
                    THEN [@ EXCEPT !.i = @ + 1]
                    ELSE [@ EXCEPT !.i = @ + 1,
                                   !.urls = PutAll(@, DomainUrls(fs, frame[t].i, _start_time))]]
    /\ _cached_urls' = Catalog(frame'[t].ref, frame'[t].urls)
    /\ UNCHANGED <<fs, now, providerVars, _cache_timestamp, scannerVars, configVars, last,
                   pc, produced>>

\* one pass of the loop of _scan_storage
ScanDomain(t) ==
    /\ pc[t] = "scan"
    /\ frame[t].i <= frame[t].count
    /\ frame' = [frame EXCEPT ![t] =
                    IF CheckTimeout(_start_time, now)
                    THEN [@ EXCEPT !.i = frame[t].count + 1]
                    ELSE IF ~fs.domains[@.i].is_dir
                    THEN [@ EXCEPT !.i = @ + 1]
                    ELSE [@ EXCEPT !.i = @ + 1,
                                   !.urls = PutAll(@, DomainUrls(fs, frame[t].i, _start_time))]]
    /\ UNCHANGED <<fs, now, providerVars, serviceVars, scannerVars, configVars, last,
                   pc, produced>>

\* _scan_storage returns its dict; the provider stores it in _cached_results
\* and returns it
ScanReturn(t) ==
    /\ pc[t] = "scan"
    /\ frame[t].i > frame[t].count
    /\ _cached_results' = Catalog(frame[t].ref, frame[t].urls)
    /\ scan_info' = [storage |-> fs, timed_out |-> FALSE, budget |-> EntryCount(fs),
                      raised |-> FALSE]
    /\ produced' = [r \in DOMAIN produced \cup {frame[t].ref} |->
                        IF r = frame[t].ref THEN frame[t].urls ELSE produced[r]]
    /\ Goto(t, "store")
    /\ UNCHANGED <<fs, now, scans, _start_time, serviceVars, scannerVars, configVars,
                   last, frame>>

\* "self._cached_urls = self.provider.get_all_urls()"
Store(t) ==
    /\ pc[t] = "store"
    /\ _cached_urls' = Catalog(frame[t].ref, frame[t].urls)
    /\ Goto(t, "stamp")
    /\ UNCHANGED <<fs, now, providerVars, _cache_timestamp, scannerVars, configVars, last,
                   frame, produced>>

\* "self._cache_timestamp = time.time()"
Stamp(t) ==
    /\ pc[t] = "stamp"
    /\ _cache_timestamp' = now
    /\ Goto(t, "refreshed")
    /\ UNCHANGED <<fs, now, providerVars, _cached_urls, scannerVars, configVars, last,
                   frame, produced>>

\* "return self._cached_urls" of _refresh_cache
ReturnRefreshed(t) ==
    /\ pc[t] = "refreshed"
    /\ frame' = [frame EXCEPT ![t].ret = _cached_urls]
    /\ Goto(t, "done")
    /\ UNCHANGED <<fs, now, providerVars, serviceVars, scannerVars, configVars, last,
                   produced>>

\* the caller has the Catalog; the thread is free for its next call
Return(t) ==
    /\ pc[t] = "done"
    /\ frame' = [frame EXCEPT ![t] = NoFrame]
    /\ Goto(t, "idle")
    /\ UNCHANGED <<fs, now, providerVars, serviceVars, scannerVars, configVars, last,
                   produced>>

InitConc ==
    /\ fs = ArchiveStages[1]
    /\ now = StartTime
    /\ ProviderInit
    /\ \E ttl \in Ttls : ServiceInit(ttl) /\ ScannerCacheInit(ttl)
    /\ last = NoCall
    /\ ThreadsInit

NextConc ==
    \/ \E t \in Threads :
        \/ Call(t)
        \/ Expired(t)
        \/ ReturnCached(t)
        \/ ScanStart(t)
        \/ ScanDomain(t)
        \/ ScanReturn(t)
        \/ Store(t)
        \/ Stamp(t)
        \/ ReturnRefreshed(t)
        \/ Return(t)
    \/ Archive

SpecConc == InitConc /\ [][NextConc]_vars

(***************************************************************************)
(* Scans that overlap while the clock runs: caching is disabled, so every  *)
(* get_all_urls call of a thread runs _scan_storage on the one provider.   *)
(***************************************************************************)
InitOverlap ==
    /\ fs = ArchiveStages[2]
    /\ now = StartTime
    /\ ProviderInit
    /\ ServiceInit(0)
    /\ ScannerCacheInit(0)
    /\ last = NoCall
    /\ ThreadsInit

NextOverlap ==
    \/ \E t \in Threads :
        \/ Call(t)
        \/ Expired(t)
        \/ ScanStart(t)
        \/ ScanDomain(t)
        \/ ScanReturn(t)
        \/ Store(t)
        \/ Stamp(t)
        \/ ReturnRefreshed(t)
        \/ Return(t)
    \/ Tick

SpecOverlap == InitOverlap /\ [][NextOverlap]_vars

(***************************************************************************)
(* clear_cache called from a thread while other threads are inside         *)
(* get_all_urls.                                                           *)
(***************************************************************************)
\* "self._cached_urls = None" of clear_cache
ClearUrls(t) ==
    /\ pc[t] = "idle"
    /\ _cached_urls' = NoCatalog
    /\ Goto(t, "clear")
    /\ UNCHANGED <<fs, now, providerVars, _cache_timestamp, scannerVars, configVars, last,
                   frame, produced>>

\* "self._cache_timestamp = 0.0" of clear_cache
ClearStamp(t) ==
    /\ pc[t] = "clear"
    /\ _cache_timestamp' = 0
    /\ Goto(t, "idle")
    /\ UNCHANGED <<fs, now, providerVars, _cached_urls, scannerVars, configVars, last,
                   frame, produced>>

\* "len(self._cached_urls)" in the message of _refresh_cache, which is built
\* whatever the log level: on None it raises TypeError, and the handler of
\* _refresh_cache raises StorageError from it
LogRaises(t) ==
    /\ pc[t] = "refreshed"
    /\ _cached_urls = NoCatalog
    /\ frame' = [frame EXCEPT ![t].ret = StorageError]
    /\ Goto(t, "done")
    /\ UNCHANGED <<fs, now, providerVars, serviceVars, scannerVars, configVars, last,
                   produced>>

NextClear ==
    \E t \in Threads :
        \/ Call(t)
        \/ Expired(t)
        \/ ReturnCached(t)
        \/ ScanStart(t)
        \/ ScanDomain(t)
        \/ ScanReturn(t)
        \/ Store(t)
        \/ Stamp(t)
        \/ LogRaises(t)
        \/ ReturnRefreshed(t)
        \/ Return(t)
        \/ ClearUrls(t)
        \/ ClearStamp(t)

SpecClear == InitConc /\ [][NextClear]_vars

(***************************************************************************)
(* The lookups of the provider, called one call at a time on a provider    *)
(* whose storage changes between the calls, and StorageService's           *)
(* get_artifact_path on top of it.  A call ends in an Answer or in a       *)
(* Failure that names the exception raised.                                *)
(***************************************************************************)
\* Python's None as the value of a call
None == [none |-> TRUE]

Answer(args, value) == [raised |-> "none", args |-> args, value |-> value]

Failure(args, exception) == [raised |-> exception, args |-> args]

\* the classes an exception is an instance of
ExceptionBases(exception) ==
    CASE exception = "StorageError" -> {"StorageError", "Exception", "BaseException"}
      [] exception = "NotImplementedError" ->
            {"NotImplementedError", "RuntimeError", "Exception", "BaseException"}
      [] exception = "AttributeError" -> {"AttributeError", "Exception", "BaseException"}
      [] OTHER -> {"BaseException"}

\* "except Exception as e: raise StorageError(...) from e" around a result
ExceptException(result) ==
    IF result.raised # "none" /\ "Exception" \in ExceptionBases(result.raised)
    THEN [raised |-> "StorageError"]
    ELSE result

\* the providers a StorageService can be built on: the filesystem provider,
\* and a provider that does not support file paths (base.py: its
\* get_artifact_path raises NotImplementedError)
ProviderTypes == {"filesystem", "unsupported"}

\* a capture directory holding archive.wacz and a metadata.json that lists
\* more artifacts than the directory holds
PartialItem(name) == Item(name, TRUE, GoodMeta, {"archive.wacz"})

\* the storage trees the lookups start from
LookupTrees ==
    {ArchiveStages[1],
     Storage(TRUE, TRUE,
        <<DomainEntry(<<"a">>, TRUE, <<PathEntry(<<"b">>, TRUE, <<PartialItem(NameA)>>)>>)>>),
     Storage(FALSE, FALSE, <<>>)}

\* the ids the lookups ask for: a_b is in every tree with a root, d_e and
\* req_b_20240315_143022 only once the archiver has written them
LookupUrlIds == {UrlId(<<"a">>, <<"b">>), UrlId(<<"d">>, <<"e">>)}

LookupSnapshotIds == {NameA, NameB}

LookupArtifactTypes == {"screenshot.png", "warc.file"}

\* the files that appear in and disappear from a capture directory
TouchFiles == {"screenshot.png", "metadata.json", "warc.file"}

\* the capture directory at folder_path exists in the storage and holds the
\* file: (Path(snapshot.folder_path) / artifact_type).exists()
FileExists(storage, folder_path, artifact_type) ==
    /\ storage.exists /\ storage.is_dir
    /\ \E i \in 1..Len(storage.domains) :
         /\ storage.domains[i].is_dir /\ storage.domains[i].name = folder_path[1]
         /\ \E j \in 1..Len(storage.domains[i].paths) :
              /\ storage.domains[i].paths[j].is_dir
              /\ storage.domains[i].paths[j].name = folder_path[2]
              /\ \E x \in 1..Len(storage.domains[i].paths[j].items) :
                   /\ storage.domains[i].paths[j].items[x].is_dir
                   /\ storage.domains[i].paths[j].items[x].name = folder_path[3]
                   /\ ArtifactExists(storage.domains[i].paths[j].items[x], artifact_type)

\* "self._cached_results.get(url_id) if self._cached_results else None"
UrlLookup(catalog, url_id) ==
    IF catalog.ref # 0 /\ catalog.urls # EmptyCatalog /\ url_id \in DOMAIN catalog.urls
    THEN catalog.urls[url_id]
    ELSE None

\* the snapshots the search of get_snapshot_by_id can end on
SnapshotMatches(catalog, snapshot_id) ==
    UNION {{catalog.urls[id].snapshots[i] :
                i \in {x \in 1..Len(catalog.urls[id].snapshots) :
                          catalog.urls[id].snapshots[x].snapshot_id = snapshot_id}} :
           id \in DOMAIN catalog.urls}

\* what get_snapshot_by_id returns: a match, or None
SnapshotLookup(catalog, snapshot_id) ==
    IF SnapshotMatches(catalog, snapshot_id) = {}
    THEN {None}
    ELSE SnapshotMatches(catalog, snapshot_id)

\* get_artifact_stream without "if not snapshot: return None"
ArtifactStreamUnchecked(storage, snapshot, artifact_type) ==
    IF snapshot = None THEN [raised |-> "AttributeError"]
    ELSE IF ~FileExists(storage, snapshot.folder_path, artifact_type)
    THEN [raised |-> "none", value |-> None]
    ELSE [raised |-> "none", value |-> [stream |-> Append(snapshot.folder_path, artifact_type)]]

\* the body of get_artifact_stream, with snapshot what get_snapshot_by_id
\* returned
ArtifactStream(storage, snapshot, artifact_type) ==
    IF snapshot = None THEN [raised |-> "none", value |-> None]
    ELSE IF ~FileExists(storage, snapshot.folder_path, artifact_type)
    THEN [raised |-> "none", value |-> None]
    ELSE [raised |-> "none", value |-> [stream |-> Append(snapshot.folder_path, artifact_type)]]

\* the body of artifact_exists: exists() and is_file()
ArtifactPresent(storage, snapshot, artifact_type) ==
    IF snapshot = None THEN [raised |-> "none", value |-> FALSE]
    ELSE [raised |-> "none",
          value |-> FileExists(storage, snapshot.folder_path, artifact_type)]

\* the body of get_artifact_path of the provider of the given type
ArtifactPath(type, storage, snapshot, artifact_type) ==
    IF type = "unsupported" THEN [raised |-> "NotImplementedError"]
    ELSE IF snapshot = None THEN [raised |-> "none", value |-> None]
    ELSE IF ~FileExists(storage, snapshot.folder_path, artifact_type)
    THEN [raised |-> "none", value |-> None]
    ELSE [raised |-> "none", value |-> [path |-> Append(snapshot.folder_path, artifact_type)]]

\* the result with the arguments of the call
WithArgs(args, result) == [x \in DOMAIN result \cup {"args"} |->
                              IF x = "args" THEN args ELSE result[x]]

\* the state of the provider a call finds
ProviderState == IF _cached_results = NoCatalog THEN "Empty" ELSE "Scanned"

\* the call has run a scan
Scanned == scans' # scans

\* the dicts the scans have returned, with the one of this call
Produced ==
    IF Scanned /\ ~scan_info'.raised
    THEN [r \in DOMAIN produced \cup {_cached_results'.ref} |->
            IF r = _cached_results'.ref THEN _cached_results'.urls ELSE produced[r]]
    ELSE produced

\* provider.get_all_urls, called directly
ProviderGetAllUrlsCall ==
    /\ \E k \in ScanBudgets(fs) : ProviderGetAllUrls(k, 0)
    /\ produced' = Produced
    /\ last' = Called("provider.get_all_urls", ProviderOutcome, ProviderState)
    /\ UNCHANGED <<serviceVars, scannerVars, configVars, pc, frame>>

\* "if self._cached_results is None: self.get_all_urls()" that scans in any case
EnsureScannedAlways ==
    /\ \E k \in ScanBudgets(fs) : ProviderGetAllUrls(k, 0)
    /\ produced' = Produced

\* "if self._cached_results is None: self.get_all_urls()"
EnsureScanned ==
    /\ IF _cached_results = NoCatalog
       THEN \E k \in ScanBudgets(fs) : ProviderGetAllUrls(k, 0)
       ELSE UNCHANGED <<fs, now, providerVars>>
    /\ produced' = Produced

\* the value of a lookup that follows EnsureScanned, StorageError when
\* get_all_urls raised
AfterScan(args, result) ==
    IF Scanned /\ scan_info'.raised THEN Failure(args, "StorageError")
    ELSE WithArgs(args, ExceptException(result))

\* provider.get_url_by_id
ProviderGetUrlById(url_id) ==
    /\ EnsureScanned
    /\ last' = Called("provider.get_url_by_id",
                      AfterScan(<<url_id>>,
                                [raised |-> "none",
                                 value |-> UrlLookup(_cached_results', url_id)]),
                      ProviderState)
    /\ UNCHANGED <<serviceVars, scannerVars, configVars, pc, frame>>

\* provider.get_snapshot_by_id
ProviderGetSnapshotById(snapshot_id) ==
    /\ EnsureScanned
    /\ \E snapshot \in SnapshotLookup(_cached_results', snapshot_id) :
         last' = Called("provider.get_snapshot_by_id",
                        AfterScan(<<snapshot_id>>, [raised |-> "none", value |-> snapshot]),
                        ProviderState)
    /\ UNCHANGED <<serviceVars, scannerVars, configVars, pc, frame>>

\* provider.get_artifact_stream
ProviderGetArtifactStream(snapshot_id, artifact_type) ==
    /\ EnsureScanned
    /\ \E snapshot \in SnapshotLookup(_cached_results', snapshot_id) :
         last' = Called("provider.get_artifact_stream",
                        AfterScan(<<snapshot_id, artifact_type>>,
                                  ArtifactStream(fs, snapshot, artifact_type)),
                        ProviderState)
    /\ UNCHANGED <<serviceVars, scannerVars, configVars, pc, frame>>

\* provider.artifact_exists
ProviderArtifactExists(snapshot_id, artifact_type) ==
    /\ EnsureScanned
    /\ \E snapshot \in SnapshotLookup(_cached_results', snapshot_id) :
         last' = Called("provider.artifact_exists",
                        AfterScan(<<snapshot_id, artifact_type>>,
                                  ArtifactPresent(fs, snapshot, artifact_type)),
                        ProviderState)
    /\ UNCHANGED <<serviceVars, scannerVars, configVars, pc, frame>>

\* what provider.get_artifact_path gives its caller
ProviderArtifactPathResult(snapshot, artifact_type) ==
    IF provider_type = "unsupported"
    THEN ArtifactPath(provider_type, fs, snapshot, artifact_type)
    ELSE IF Scanned /\ scan_info'.raised THEN [raised |-> "StorageError"]
    ELSE ExceptException(ArtifactPath(provider_type, fs, snapshot, artifact_type))

\* the state a call of provider.get_artifact_path leaves: a provider without
\* file paths raises at once
ArtifactPathScan ==
    IF provider_type = "unsupported"
    THEN UNCHANGED <<fs, now, providerVars, produced>>
    ELSE EnsureScanned

\* provider.get_artifact_path
ProviderGetArtifactPath(snapshot_id, artifact_type) ==
    /\ ArtifactPathScan
    /\ \E snapshot \in SnapshotLookup(_cached_results', snapshot_id) :
         last' = Called("provider.get_artifact_path",
                        WithArgs(<<snapshot_id, artifact_type>>,
                                 ProviderArtifactPathResult(snapshot, artifact_type)),
                        ProviderState)
    /\ UNCHANGED <<serviceVars, scannerVars, configVars, pc, frame>>

\* StorageService.get_artifact_path: the provider's call inside
\* "try: ... except Exception as e: raise StorageError(...) from e"
GetArtifactPath(snapshot_id, artifact_type) ==
    /\ ArtifactPathScan
    /\ \E snapshot \in SnapshotLookup(_cached_results', snapshot_id) :
         last' = Called("get_artifact_path",
                        WithArgs(<<snapshot_id, artifact_type>>,
                                 ExceptException(
                                    ProviderArtifactPathResult(snapshot, artifact_type))),
                        ProviderState)
    /\ UNCHANGED <<serviceVars, scannerVars, configVars, pc, frame>>

\* the first capture directory of the tree, with the file created or removed
Touched(item, file) ==
    IF file = "metadata.json"
    THEN [item EXCEPT !.meta = IF item.meta.state = "missing" THEN GoodMeta ELSE NoMeta]
    ELSE [item EXCEPT !.files = IF file \in item.files THEN item.files \ {file}
                                ELSE item.files \cup {file}]

\* a file is created in, or removed from, the first capture directory of the
\* archive, once after a scan
Touch(file) ==
    /\ fs = scan_info.storage
    /\ fs.exists /\ fs.is_dir
    /\ fs' = [fs EXCEPT !.domains[1].paths[1].items[1] = Touched(@, file)]
    /\ UNCHANGED <<now, providerVars, serviceVars, scannerVars, configVars, threadVars, last>>

InitLookup ==
    /\ fs \in LookupTrees
    /\ now = StartTime
    /\ provider_type \in ProviderTypes
    /\ scans = 0
    /\ _cached_results = NoCatalog
    /\ _start_time = NoStart
    /\ scan_info = NoScanInfo
    /\ ServiceInit(MaxTtl)
    /\ ScannerCacheInit(MaxTtl)
    /\ last = NoCall
    /\ ThreadsInit

\* the calls only the filesystem provider is known to answer
FilesystemCalls ==
    \/ ProviderGetAllUrlsCall
    \/ \E url_id \in LookupUrlIds : ProviderGetUrlById(url_id)
    \/ \E snapshot_id \in LookupSnapshotIds :
        \/ ProviderGetSnapshotById(snapshot_id)
        \/ \E artifact_type \in LookupArtifactTypes :
            \/ ProviderGetArtifactStream(snapshot_id, artifact_type)
            \/ ProviderArtifactExists(snapshot_id, artifact_type)

NextLookup ==
    \/ provider_type = "filesystem" /\ FilesystemCalls
    \/ \E snapshot_id \in LookupSnapshotIds, artifact_type \in LookupArtifactTypes :
        \/ ProviderGetArtifactPath(snapshot_id, artifact_type)
        \/ GetArtifactPath(snapshot_id, artifact_type)
    \/ \E file \in TouchFiles : Touch(file)
    \/ Archive

SpecLookup == InitLookup /\ [][NextLookup]_vars

(***************************************************************************)
(* The lookups of StorageService next to get_all_urls and clear_cache,     *)
(* called one call at a time while the clock runs and the archive grows.   *)
(***************************************************************************)
\* "all_urls = self.get_all_urls()" inside a method of the service
ServiceAllUrls ==
    IF _cached_urls = NoCatalog \/ IsCacheExpired(now)
    THEN /\ \E k \in ScanBudgets(fs), d \in ScanDelays : ProviderGetAllUrls(k, d)
         /\ IF scan_info'.raised
            THEN UNCHANGED serviceVars
            ELSE /\ _cached_urls' = _cached_results'
                 /\ _cache_timestamp' = now'
    ELSE UNCHANGED <<fs, now, providerVars, serviceVars>>

\* StorageService.get_url_by_id: all_urls.get(url_id) of get_all_urls()
ServiceGetUrlById(url_id) ==
    /\ ServiceAllUrls
    /\ last' = Called("get_url_by_id",
                      IF Scanned /\ scan_info'.raised
                      THEN Failure(<<url_id>>, "StorageError")
                      ELSE Answer(<<url_id>>, UrlLookup(_cached_urls', url_id)),
                      EntryState(now))
    /\ UNCHANGED <<scannerVars, configVars, threadVars>>

\* StorageService.get_snapshot_by_id: provider.get_snapshot_by_id inside
\* "try: ... except Exception as e: raise StorageError(...) from e"
ServiceGetSnapshotById(snapshot_id) ==
    /\ IF _cached_results = NoCatalog
       THEN \E k \in ScanBudgets(fs) : ProviderGetAllUrls(k, 0)
       ELSE UNCHANGED <<fs, now, providerVars>>
    /\ \E snapshot \in SnapshotLookup(_cached_results', snapshot_id) :
         last' = Called("get_snapshot_by_id",
                        ExceptException(
                            AfterScan(<<snapshot_id>>, [raised |-> "none", value |-> snapshot])),
                        EntryState(now))
    /\ UNCHANGED <<serviceVars, scannerVars, configVars, threadVars>>

InitService ==
    /\ fs = ArchiveStages[1]
    /\ now = StartTime
    /\ ProviderInit
    /\ \E ttl \in Ttls : ServiceInit(ttl)
    /\ ScannerCacheInit(MaxTtl)
    /\ last = NoCall
    /\ ThreadsInit

NextService ==
    \/ GetAllUrls
    \/ ClearCache
    \/ \E url_id \in LookupUrlIds : ServiceGetUrlById(url_id)
    \/ \E snapshot_id \in LookupSnapshotIds : ServiceGetSnapshotById(snapshot_id)
    \/ Tick
    \/ Archive

SpecService == InitService /\ [][NextService]_vars

(***************************************************************************)
(* StorageService over a provider whose storage operation can fail:        *)
(* get_all_urls() of the StorageProvider interface returns the dict or     *)
(* raises StorageError.                                                    *)
(***************************************************************************)
\* provider.get_all_urls() raises StorageError: nothing of the provider's
\* result changes
ProviderRaises ==
    /\ scans < MaxScans
    /\ scans' = scans + 1
    /\ scan_info' = [storage |-> fs, timed_out |-> FALSE, budget |-> 0, raised |-> TRUE]
    /\ UNCHANGED <<fs, now, _cached_results, _start_time>>

\* provider.get_all_urls() of a provider that can fail
FallibleGetAllUrls ==
    \/ \E k \in ScanBudgets(fs), d \in ScanDelays : ProviderGetAllUrls(k, d)
    \/ ProviderRaises

\* StorageService.get_all_urls over that provider
GetAllUrlsFallible == GetAllUrlsFrom(FallibleGetAllUrls)

InitFail ==
    /\ fs = ArchiveStages[1]
    /\ now = StartTime
    /\ provider_type = "fallible"
    /\ scans = 0
    /\ _cached_results = NoCatalog
    /\ _start_time = NoStart
    /\ scan_info = NoScanInfo
    /\ \E ttl \in Ttls : ServiceInit(ttl)
    /\ ScannerCacheInit(MaxTtl)
    /\ last = NoCall
    /\ ThreadsInit

NextFail ==
    \/ GetAllUrlsFallible
    \/ ClearCache
    \/ GetCacheStats
    \/ Tick
    \/ Archive

SpecFail == InitFail /\ [][NextFail]_vars

(***************************************************************************)
(* GET /api/urls: the query parameters are validated, the cached scanner   *)
(* results are converted, sorted and sliced into a page.                   *)
(***************************************************************************)
\* the ceiling of the limit parameter: Query(50, ge=1, le=100)
LimitMax == 100

\* the page numbers requested run from 0 to MaxPage
MaxPage == 4

Pages == 0..MaxPage

Limits == {0, 1, 2, LimitMax, LimitMax + 1}

\* SortOption, without the ordering of strings of SortOption.URL
SortOptions == {"last_captured", "snapshot_count"}

\* Snapshot.from_scanner_result
SnapshotFromScannerResult(scanner_snapshot) ==
    Snapshot(scanner_snapshot.snapshot_id, scanner_snapshot.timestamp, scanner_snapshot.url,
             scanner_snapshot.title, scanner_snapshot.folder_path, scanner_snapshot.metadata,
             {scanner_snapshot.available_artifacts[i] :
                i \in 1..Len(scanner_snapshot.available_artifacts)})

\* the end of ArchivedUrl.from_scanner_result, with the snapshots converted
FromConverted(scanner_archived_url, snapshots) ==
    IF \E i \in 1..Len(snapshots) : ~snapshots[i].ok THEN NoUrl
    ELSE IF ~HttpUrlValid(scanner_archived_url.original_url) THEN NoUrl
    ELSE ArchivedUrl(scanner_archived_url.url_id, scanner_archived_url.original_url.s,
                     scanner_archived_url.folder_name, snapshots)

\* ArchivedUrl.from_scanner_result: NoUrl where pydantic raises ValidationError
FromScannerResult(scanner_archived_url) ==
    FromConverted(scanner_archived_url,
                  [i \in 1..Len(scanner_archived_url.snapshots) |->
                      SnapshotFromScannerResult(scanner_archived_url.snapshots[i])])

\* ArchivedUrl.snapshot_count
SnapshotCount(archived_url) == Len(archived_url.snapshots)

\* the later of two instants
Later(a, b) == IF DtLess(a, b) THEN b ELSE a

\* max(snapshot.timestamp for snapshot in self.snapshots), over the first n
RECURSIVE MaxTimestamp(_, _)
MaxTimestamp(snapshots, n) ==
    IF n = 1 THEN snapshots[1].timestamp
    ELSE Later(MaxTimestamp(snapshots, n - 1), snapshots[n].timestamp)

\* ArchivedUrl.last_captured
LastCaptured(archived_url) == MaxTimestamp(archived_url.snapshots, Len(archived_url.snapshots))

\* the key of the sort puts a before b
KeyBefore(sort, a, b) ==
    IF sort = "snapshot_count" THEN SnapshotCount(a) > SnapshotCount(b)
    ELSE DtLess(LastCaptured(b), LastCaptured(a))

\* one element inserted behind the elements that do not come after it
RECURSIVE InsertByKey(_, _, _)
InsertByKey(sort, sorted, u) ==
    IF sorted = <<>> THEN <<u>>
    ELSE IF KeyBefore(sort, u, Head(sorted)) THEN <<u>> \o sorted
    ELSE <<Head(sorted)>> \o InsertByKey(sort, Tail(sorted), u)

\* archived_urls.sort(key=..., reverse=True): descending, equal keys in their
\* original order
RECURSIVE SortBy(_, _)
SortBy(sort, archived_urls) ==
    IF archived_urls = <<>> THEN <<>>
    ELSE InsertByKey(sort, SortBy(sort, SubSeq(archived_urls, 1, Len(archived_urls) - 1)),
                     archived_urls[Len(archived_urls)])

\* math.ceil(a / b) as (a + b - 1) // b
CeilDiv(a, b) == (a + b - 1) \div b

\* PaginationMeta.create
PaginationMetaCreate(page, limit, total_count) ==
    [page |-> page, limit |-> limit, total_count |-> total_count,
     total_pages |-> IF total_count > 0 THEN CeilDiv(total_count, limit) ELSE 0,
     has_next |-> page < (IF total_count > 0 THEN CeilDiv(total_count, limit) ELSE 0),
     has_previous |-> page > 1]

Min(a, b) == IF a < b THEN a ELSE b

\* s[start_idx:end_idx]
Slice(s, start_idx, end_idx) == SubSeq(s, start_idx + 1, Min(end_idx, Len(s)))

\* UrlListSummary.from_archived_url
UrlListSummary(archived_url) ==
    [url_id |-> archived_url.url_id, snapshot_count |-> SnapshotCount(archived_url),
     last_captured |-> LastCaptured(archived_url)]

\* a response with a status code; 200 carries a page
HttpError(status) == [status |-> status]

PaginatedResponse(data, pagination) ==
    [status |-> 200, data |-> data, pagination |-> pagination]

\* [UrlListSummary.from_archived_url(url) for url in page_urls]
Summaries(page_urls) == [i \in 1..Len(page_urls) |-> UrlListSummary(page_urls[i])]

\* the body of list_urls from "Calculate pagination" on, with out-of-range
\* pages served as pages
PaginateUnchecked(archived_urls, page, limit) ==
    PaginatedResponse(
        Summaries(Slice(archived_urls, (page - 1) * limit, (page - 1) * limit + limit)),
        PaginationMetaCreate(page, limit, Len(archived_urls)))

\* the body of list_urls from "Calculate pagination" on
Paginate(archived_urls, page, limit) ==
    IF page > 1 /\ (page - 1) * limit >= Len(archived_urls)
    THEN HttpError(400)
    ELSE PaginatedResponse(
            Summaries(Slice(archived_urls, (page - 1) * limit, (page - 1) * limit + limit)),
            PaginationMetaCreate(page, limit, Len(archived_urls)))

\* the body of list_urls after the sort
ListSorted(archived_urls, page, limit) == Paginate(archived_urls, page, limit)

\* the body of list_urls after the conversion: a ValidationError of the
\* conversion ends in "except Exception" and status 500
ListConverted(archived_urls, page, limit, sort) ==
    IF \E i \in 1..Len(archived_urls) : ~archived_urls[i].ok
    THEN {HttpError(500)}
    ELSE {ListSorted(sorted, page, limit) : sorted \in {SortBy(sort, archived_urls)}}

\* [ArchivedUrl.from_scanner_result(url) for url in scanner_results]
ConvertAll(scanner_results) ==
    [i \in 1..Len(scanner_results) |-> FromScannerResult(scanner_results[i])]

\* the body of list_urls, with scanner_results what
\* get_cached_scanner_results() returned: the set of its one response
ListResults(scanner_results, page, limit, sort) ==
    IF scanner_results = <<>>
    THEN {PaginatedResponse(<<>>, PaginationMetaCreate(page, limit, 0))}
    ELSE UNION {ListConverted(archived_urls, page, limit, sort) :
                    archived_urls \in {ConvertAll(scanner_results)}}

\* the Query(...) constraints on page and limit hold
ValidQuery(page, limit) == page >= 1 /\ limit >= 1 /\ limit <= LimitMax

\* GET /api/urls?page=&limit=&sort=: a parameter outside its Query constraints
\* is answered 422 before list_urls runs
ListUrls(page, limit, sort) ==
    /\ IF ValidQuery(page, limit)
       THEN /\ CachedScannerResults
            /\ \E scanner_results \in {lru'.values} :
                 \E response \in ListResults(scanner_results, page, limit, sort) :
                    last' = Called("list_urls", WithArgs(<<page, limit, sort>>, response),
                                   ScannerEntryState(now))
       ELSE /\ UNCHANGED <<fs, now, providerVars, serviceVars, scannerVars, configVars,
                           threadVars>>
            /\ last' = Called("list_urls", WithArgs(<<page, limit, sort>>, HttpError(422)),
                              ScannerEntryState(now))

InitList ==
    /\ fs \in ListTrees
    /\ now = StartTime
    /\ ProviderInit
    /\ ServiceInit(MaxTtl)
    /\ ScannerCacheInit(MaxTtl)
    /\ last = NoCall
    /\ ThreadsInit

NextList ==
    \E page \in Pages, limit \in Limits, sort \in SortOptions : ListUrls(page, limit, sort)

SpecList == InitList /\ [][NextList]_vars

(***************************************************************************)
(* _parse_timestamp applied to directory names.  A name is built from the  *)
(* tokens that '_' separates in it.                                        *)
(***************************************************************************)
\* '_'.join(tokens)
RECURSIVE JoinTokens(_)
JoinTokens(tokens) ==
    IF Len(tokens) = 1 THEN tokens[1]
    ELSE tokens[1] \o <<"_">> \o JoinTokens(Tail(tokens))

\* nothing, or the token req
PrefixTokens == {<<>>, <<<<"r", "e", "q">>>>}

\* no request id, the empty id, a-b, a_b
IdTokens == {<<>>, <<<<>>>>, <<<<"a", "-", "b">>>>, <<<<"a">>, <<"b">>>>}

\* 20240315, 20240229, 20230229, 20241301, 2024315, 2024-03-15
DateTokens == {Date15, <<"2", "0", "2", "4", "0", "2", "2", "9">>, <<"2", "0", "2", "3", "0", "2", "2", "9">>, <<"2", "0", "2", "4", "1", "3", "0", "1">>, <<"2", "0", "2", "4", "3", "1", "5">>, <<"2", "0", "2", "4", "-", "0", "3", "-", "1", "5">>}

\* 143022, 000000, 246000, 1430, 14-30-22
TimeTokens == {Time14, <<"0", "0", "0", "0", "0", "0">>, <<"2", "4", "6", "0", "0", "0">>, <<"1", "4", "3", "0">>, <<"1", "4", "-", "3", "0", "-", "2", "2">>}

\* the names that end in a date token and a time token, the names without
\* them, and 20240316T143022Z
ParseNames ==
    {JoinTokens(p \o i \o <<d, t>>) :
        p \in PrefixTokens, i \in IdTokens, d \in DateTokens, t \in TimeTokens}
    \cup {JoinTokens(p \o i) : p \in PrefixTokens, i \in IdTokens \ {<<>>}}
    \cup {NameBad, NameLegacy, NameNotes, ReqPrefix}

\* self._parse_timestamp(folder_name), which returns a datetime or None and
\* raises nothing: every exception ends in "except Exception: return None"
ParseTimestampCall(folder_name) ==
    /\ UNCHANGED <<fs, now, providerVars, serviceVars, scannerVars, configVars, threadVars>>
    /\ last' = Called("_parse_timestamp",
                      Answer(<<folder_name>>, ParseTimestamp(folder_name)), "Empty")

InitParse ==
    /\ fs = ArchiveStages[1]
    /\ now = StartTime
    /\ ProviderInit
    /\ ServiceInit(MaxTtl)
    /\ ScannerCacheInit(MaxTtl)
    /\ last = NoCall
    /\ ThreadsInit

NextParse == \E folder_name \in ParseNames : ParseTimestampCall(folder_name)

SpecParse == InitParse /\ [][NextParse]_vars

(***************************************************************************)
(* The URL of a capture, over the shapes of metadata.json and the ids of   *)
(* the model.                                                              *)
(***************************************************************************)
\* {}, {"archive_info": {...}}, {"archive_info": "u"}, with and without
\* "url" keys at both levels, empty and not; no file, and a file that is not
\* JSON
UrlMetaFiles ==
    {MetaFile(state, archive_info, ai_url, url, JAbsent, extra) :
        state \in {"object", "missing", "malformed"},
        archive_info \in {JAbsent, J("obj", <<>>), JStr(<<"u">>)},
        ai_url \in {JAbsent, JStr(<<>>), JStr(UrlX)},
        url \in {JAbsent, JStr(<<>>), JStr(UrlY)},
        extra \in BOOLEAN}

\* a_b, x.org_p%2Fq and http%3A%2F%2Fy_p
UrlIdPool ==
    {UrlId(<<"a">>, <<"b">>),
     UrlId(<<"x", ".", "o", "r", "g">>, <<"p", "%", "2", "F", "q">>),
     UrlId(<<"h", "t", "t", "p", "%", "3", "A", "%", "2", "F", "%", "2", "F", "y">>, <<"p">>)}

\* the URL extraction of _scan_snapshot_directory on the metadata file of a
\* capture directory of the Resource url_id
ExtractUrlCall(meta, url_id) ==
    /\ UNCHANGED <<fs, now, providerVars, serviceVars, scannerVars, configVars, threadVars>>
    /\ last' = Called("_scan_snapshot_directory",
                      Answer(<<meta, url_id>>, ExtractUrl(ParseMetadataJson(meta), url_id)),
                      "Empty")

NextUrl == \E meta \in UrlMetaFiles, url_id \in UrlIdPool : ExtractUrlCall(meta, url_id)

SpecUrl == InitParse /\ [][NextUrl]_vars

(***************************************************************************)
(* Properties of the Catalog a scan returns.                               *)
(***************************************************************************)
Resources(catalog) == {catalog.urls[id] : id \in DOMAIN catalog.urls}

\* the directories of the tree a scan read
DomainDirs(storage) == {storage.domains[i] : i \in {j \in 1..Len(storage.domains) : storage.domains[j].is_dir}}

PathDirs(domain_dir) == {domain_dir.paths[i] : i \in {j \in 1..Len(domain_dir.paths) : domain_dir.paths[j].is_dir}}

Items(path_dir) == {path_dir.items[i] : i \in 1..Len(path_dir.items)}

\* a directory whose name starts with req_ and parses as a timestamp
ValidCaptureDir(item) ==
    item.is_dir /\ StartsWith(item.name, ReqPrefix) /\ ParseTimestamp(item.name) # NoTime

\* the folder paths of the Captures of a Catalog
CapturePaths(catalog) ==
    UNION {{r.snapshots[i].folder_path : i \in 1..Len(r.snapshots)} : r \in Resources(catalog)}

StrictlyDescending(snapshots) ==
    \A i \in 1..(Len(snapshots) - 1) :
        DtLess(snapshots[i + 1].timestamp, snapshots[i].timestamp)

Descending(snapshots) ==
    \A i \in 1..(Len(snapshots) - 1) :
        ~DtLess(snapshots[i].timestamp, snapshots[i + 1].timestamp)

\* C8 as stated: in every Catalog a scan produced, each Resource's snapshots
\* are in strictly descending timestamp order:
\* snapshots[i].timestamp > snapshots[i+1].timestamp for every adjacent pair.
C8_StrictlyDescending ==
    \A r \in Resources(_cached_results) : StrictlyDescending(r.snapshots)

\* C8 as amended: in every Catalog a scan produced, each Resource's snapshots
\* are in descending timestamp order, snapshots[i].timestamp >=
\* snapshots[i+1].timestamp; two captures of the same second stay adjacent.
C8_Descending ==
    \A r \in Resources(_cached_results) : Descending(r.snapshots)

\* a Resource holds two captures of the same second, and the directory listed
\* an older capture before a newer one (the sort moved something)
C8_Witness ==
    /\ \E r \in Resources(_cached_results) :
         \E i \in 1..(Len(r.snapshots) - 1) :
            r.snapshots[i].timestamp = r.snapshots[i + 1].timestamp
    /\ \E d \in DomainDirs(scan_info.storage) : \E p \in PathDirs(d) :
         \E i, j \in 1..Len(p.items) :
            /\ i < j /\ ValidCaptureDir(p.items[i]) /\ ValidCaptureDir(p.items[j])
            /\ DtLess(ParseTimestamp(p.items[i].name), ParseTimestamp(p.items[j].name))
            /\ Append(<<d.name, p.name>>, p.items[j].name) \in CapturePaths(_cached_results)
            /\ Append(<<d.name, p.name>>, p.items[i].name) \in CapturePaths(_cached_results)

\* C9: every Resource of a Catalog, of a complete scan or of one cut short by
\* the timeout, has at least one Capture, and a path segment that holds no
\* valid capture directory contributes no Resource.
C9_NoEmptyResource ==
    /\ \A r \in Resources(_cached_results) : Len(r.snapshots) >= 1
    /\ \A d \in DomainDirs(scan_info.storage) : \A p \in PathDirs(d) :
         (\A it \in Items(p) : ~ValidCaptureDir(it))
            => \A r \in Resources(_cached_results) :
                 r.folder_name # d.name \o <<"/">> \o p.name

\* a scan cut short returned Resources, from a tree in which a path segment
\* lists entries of which none is a valid capture directory
C9_Witness ==
    /\ scan_info.timed_out
    /\ Resources(_cached_results) # {}
    /\ \E d \in DomainDirs(scan_info.storage) : \E p \in PathDirs(d) :
         /\ Len(p.items) >= 2
         /\ \A it \in Items(p) : ~ValidCaptureDir(it)
         /\ \E it \in Items(p) : it.is_dir /\ StartsWith(it.name, ReqPrefix)

\* C10 as stated: absent a timeout, an entry of a path-segment directory
\* yields a Capture in the Catalog exactly when it is a directory whose name
\* starts with req_ and parses as a timestamp, whatever its metadata file and
\* its artifact files are.
C10_CaptureIffValidName ==
    (_cached_results.ref # 0 /\ ~scan_info.timed_out) =>
        \A d \in DomainDirs(scan_info.storage) : \A p \in PathDirs(d) :
            \A it \in Items(p) :
                (Append(<<d.name, p.name>>, it.name) \in CapturePaths(_cached_results))
                    <=> ValidCaptureDir(it)

\* the positions, in iterdir() order, of the directories of a listing
DirIndexes(entries) == {i \in 1..Len(entries) : entries[i].is_dir}

\* the Captures a scan of the path-segment directory p of the domain d builds
\* when it is not cut short
BuiltCaptures(d, p) ==
    {ScanSnapshotDirectory(it, UrlId(d.name, p.name), <<d.name, p.name>>) :
        it \in {x \in Items(p) : IsRequestDirectory(x)}} \ {NoSnapshot}

\* the path segment holds a capture that can be built, and its own Resource
\* can be built: id and folder name pass the validation of ArchivedUrl
ValidPathSegment(d, p) ==
    /\ BuiltCaptures(d, p) # {}
    /\ ArchivedUrl(UrlId(d.name, p.name), Https, d.name \o <<"/">> \o p.name, <<>>).ok

\* C12 as stated: processing one entry that fails drops only that entry; in
\* a scan that is not cut short every valid path segment of every domain has
\* its Resource in the Catalog, whatever fails in the entries around it.
C12_OnlyFailingEntryDropped ==
    (_cached_results.ref # 0 /\ ~scan_info.timed_out) =>
        \A d \in DomainDirs(scan_info.storage) : \A p \in PathDirs(d) :
            ValidPathSegment(d, p) => UrlId(d.name, p.name) \in DOMAIN _cached_results.urls

\* what a scan with an unlimited budget returns
FullScan(storage) == Catalog(0, ScanStorage(storage, 0, EntryCount(storage)).urls)

\* the number of Captures of a Catalog
CaptureCount(catalog) == Cardinality(CapturePaths(catalog))

\* the timeout was detected at reading budget + 1: a capture directory is
\* processed after a reading for its domain, one for its path segment and one
\* for itself, all within the budget
NoCaptureAfterTimeout ==
    CaptureCount(_cached_results) > 0 =>
        CaptureCount(_cached_results) + 2 <= scan_info.budget

\* C13 as stated: a scan cut short by the timeout returns what it has
\* accumulated; the Resources and Captures of that Catalog are a subset of
\* those of a scan of the same storage with an unlimited budget, and no
\* capture directory is processed once the timeout is detected.
C13_PartialSubsetOfFull ==
    scan_info.timed_out =>
        /\ DOMAIN _cached_results.urls \subseteq DOMAIN FullScan(scan_info.storage).urls
        /\ CapturePaths(_cached_results) \subseteq CapturePaths(FullScan(scan_info.storage))
        /\ NoCaptureAfterTimeout

\* C13 as amended: a scan cut short by the timeout returns what it has
\* accumulated; the ids of its Resources are ids of the Catalog of a scan with
\* an unlimited budget, each of its Captures is one that the unlimited scan
\* builds from the same directory (where two directories share an id the
\* unlimited scan may keep the other one), and no capture directory is
\* processed once the timeout is detected.
C13_PartialFromSameDirectories ==
    scan_info.timed_out =>
        /\ DOMAIN _cached_results.urls \subseteq DOMAIN FullScan(scan_info.storage).urls
        /\ \A r \in Resources(_cached_results) :
              \E d \in DomainDirs(scan_info.storage) : \E p \in PathDirs(d) :
                 /\ r.folder_name = d.name \o <<"/">> \o p.name
                 /\ \A i \in 1..Len(r.snapshots) : r.snapshots[i] \in BuiltCaptures(d, p)
        /\ NoCaptureAfterTimeout

\* a scan cut short returned some Resources and not all of them
C13_Witness ==
    /\ scan_info.timed_out
    /\ Resources(_cached_results) # {}
    /\ DOMAIN _cached_results.urls # DOMAIN FullScan(scan_info.storage).urls

\* the (domain, path segment) pairs at the positions <<i, j>> of the tree
\* whose Resource a complete scan stores under id
StoredUnder(storage, id) ==
    {pos \in UNION {{<<i, j>> : j \in DirIndexes(storage.domains[i].paths)} :
                        i \in DirIndexes(storage.domains)} :
        /\ UrlId(storage.domains[pos[1]].name, storage.domains[pos[1]].paths[pos[2]].name) = id
        /\ ValidPathSegment(storage.domains[pos[1]], storage.domains[pos[1]].paths[pos[2]])
        /\ \A j \in DirIndexes(storage.domains[pos[1]].paths) :
              (j < pos[2] /\ BuiltCaptures(storage.domains[pos[1]],
                                            storage.domains[pos[1]].paths[j]) # {})
                => ValidPathSegment(storage.domains[pos[1]], storage.domains[pos[1]].paths[j])}

\* pos comes before other in the order of the scan
ScannedBefore(pos, other) ==
    pos[1] < other[1] \/ (pos[1] = other[1] /\ pos[2] < other[2])

\* the Resource r is the one of the directory at pos: its id, its folder and
\* every one of its Captures
ResourceOf(storage, pos, r) ==
    /\ r.url_id = UrlId(storage.domains[pos[1]].name,
                        storage.domains[pos[1]].paths[pos[2]].name)
    /\ r.folder_name = storage.domains[pos[1]].name \o <<"/">>
                            \o storage.domains[pos[1]].paths[pos[2]].name
    /\ \A i \in 1..Len(r.snapshots) :
          r.snapshots[i] \in BuiltCaptures(storage.domains[pos[1]],
                                           storage.domains[pos[1]].paths[pos[2]])

\* C15: every key of a Catalog is the url_id of its Resource, domain, "_" and
\* path segment; of the directories that produce the same id the Catalog of
\* a complete scan holds the one scanned last, with the Captures of that
\* directory only.
C15_KeyIsIdLastWins ==
    _cached_results.ref # 0 =>
        \A id \in DOMAIN _cached_results.urls :
            /\ _cached_results.urls[id].url_id = id
            /\ \E pos \in StoredUnder(scan_info.storage, id) :
                  /\ ResourceOf(scan_info.storage, pos, _cached_results.urls[id])
                  /\ ~scan_info.timed_out =>
                        \A other \in StoredUnder(scan_info.storage, id) :
                            ~ScannedBefore(pos, other)

\* a complete scan of a tree in which two directories produce the same id
C15_Witness ==
    /\ _cached_results.ref # 0 /\ ~scan_info.timed_out
    /\ \E id \in DOMAIN _cached_results.urls :
          Cardinality(StoredUnder(scan_info.storage, id)) >= 2

\* C14: when the storage root does not exist or is not a directory, a scan
\* returns an empty Catalog and raises nothing: provider.get_all_urls and
\* StorageService.get_all_urls return an empty Catalog, not a StorageError.
C14_NoRootEmptyCatalog ==
    (last.op \in {"provider.get_all_urls", "get_all_urls"}
        /\ (~fs.exists \/ ~fs.is_dir)) =>
            /\ last.ret # StorageError
            /\ last.ret.ref # 0
            /\ last.ret.urls = EmptyCatalog
            /\ _cached_results = last.ret

\* the service has returned the Catalog of a scan of a root that is a file
C14_Witness ==
    /\ last.op = "get_all_urls"
    /\ fs.exists /\ ~fs.is_dir
    /\ _cached_urls.ref # 0 /\ _cached_urls.urls = EmptyCatalog

(***************************************************************************)
(* Properties of the lookups.                                              *)
(***************************************************************************)
\* the four artifact names that exist in the capture directory of the storage
OnDisk(storage, folder_path) ==
    {ArtifactFiles[i] : i \in {j \in 1..Len(ArtifactFiles) :
                                  FileExists(storage, folder_path, ArtifactFiles[j])}}

\* the Captures of a Catalog
Captures(catalog) ==
    UNION {{catalog.urls[id].snapshots[i] : i \in 1..Len(catalog.urls[id].snapshots)} :
           id \in DOMAIN catalog.urls}

\* C11: after each scan, a Capture's available_artifacts is exactly the
\* subset of archive.wacz, metadata.json, screenshot.png and singlefile.html
\* that exists in its directory in the storage the scan read, whatever its
\* metadata.json lists; so a file created or removed between two scans
\* changes the set in the next scan's Catalog.
C11_ArtifactsFromDisk ==
    \A snapshot \in Captures(_cached_results) :
        snapshot.available_artifacts = OnDisk(scan_info.storage, snapshot.folder_path)

\* two scans have returned the same Capture with different artifact sets, and
\* the last one lists fewer artifacts than its metadata.json claims
C11_Witness ==
    /\ \E r \in DOMAIN produced : \E old \in Captures(Catalog(r, produced[r])) :
          \E new \in Captures(_cached_results) :
              /\ new.folder_path = old.folder_path
              /\ new.available_artifacts # old.available_artifacts
              /\ new.metadata.extra
              /\ "metadata.json" \in new.available_artifacts
              /\ "screenshot.png" \notin new.available_artifacts

(***************************************************************************)
(* Properties of the caches, one call at a time.                           *)
(***************************************************************************)
\* the step is a completed call of op
IsCall(op) == last'.op = op /\ last'.flip # last.flip

\* the step performs exactly one provider scan and returns its Catalog
ScansOnce ==
    /\ scans' = scans + 1
    /\ _cached_results'.ref = scans'
    /\ last'.ret = _cached_results'

\* the step performs exactly one scan of the listing endpoint's scanner and
\* returns its list
ScannerScansOnce ==
    /\ scanner_scans' = scanner_scans + 1
    /\ last'.ret.ref = scanner_scans'
    /\ lru' = last'.ret

\* C1: with cache_ttl_seconds > 0, a get_all_urls call on a cache that holds
\* the Catalog of an earlier refresh (no clear_cache since), made while the
\* time elapsed since that refresh is within ttl, returns that very Catalog
\* object and performs no provider scan.
C1_HitWithinTtl ==
    [][(/\ IsCall("get_all_urls")
        /\ cache_ttl_seconds > 0
        /\ _cached_urls # NoCatalog
        /\ now - _cache_timestamp <= cache_ttl_seconds)
       => (/\ last'.ret = _cached_urls
           /\ last'.ret.ref = _cached_urls.ref
           /\ scans' = scans
           /\ _cached_results' = _cached_results
           /\ _cached_urls' = _cached_urls
           /\ _cache_timestamp' = _cache_timestamp)]_vars

\* a get_all_urls call made exactly ttl after the refresh returned the
\* Catalog of that refresh, the only scan so far
C1_Witness ==
    /\ last.op = "get_all_urls" /\ last.found = "Fresh" /\ last.at = now
    /\ cache_ttl_seconds > 0
    /\ now - _cache_timestamp = cache_ttl_seconds
    /\ scans = 1 /\ last.ret.ref = 1

\* C2: with ttl > 0, a get_all_urls call made after more than ttl has elapsed
\* since the last refresh performs exactly one provider scan, replaces the
\* cached Catalog and the cache timestamp with the result and the end of that
\* scan, and returns the new Catalog; a call within ttl of a refresh performs
\* no scan.
C2_StaleRefreshesOnce ==
    [][/\ (/\ IsCall("get_all_urls")
           /\ cache_ttl_seconds > 0
           /\ _cached_urls # NoCatalog
           /\ now - _cache_timestamp > cache_ttl_seconds)
          => (/\ ScansOnce
              /\ _cached_urls' = _cached_results'
              /\ _cached_urls'.ref # _cached_urls.ref
              /\ _cached_urls'.urls = ScanStorage(fs, now, EntryCount(fs)).urls
              /\ _cache_timestamp' = now'
              /\ _cache_timestamp' > _cache_timestamp)
       /\ (/\ IsCall("get_all_urls")
           /\ cache_ttl_seconds > 0
           /\ last.op = "get_all_urls" /\ last.found = "Stale"
           /\ now - last.at <= cache_ttl_seconds)
          => scans' = scans]_vars

\* a get_all_urls call found the entry Stale and refreshed it with the
\* second scan, which read the archive as it had become
C2_Witness ==
    /\ last.op = "get_all_urls" /\ last.found = "Stale" /\ last.at = now
    /\ cache_ttl_seconds > 0
    /\ scans = 2 /\ last.ret.ref = 2 /\ _cached_urls = last.ret
    /\ fs = ArchiveStages[2]
    /\ Cardinality(DOMAIN _cached_urls.urls) = 2

\* C3: when the configured ttl is 0 or negative, every get_all_urls call and
\* every get_cached_scanner_results call performs exactly one fresh scan,
\* whatever calls preceded it and however little time has passed.
C3_DisabledAlwaysScans ==
    [][/\ (IsCall("get_all_urls") /\ cache_ttl_seconds <= 0) => ScansOnce
       /\ (IsCall("get_cached_scanner_results") /\ _scanner_cache_ttl <= 0)
          => ScannerScansOnce]_vars

\* with a negative ttl, both caches have scanned twice within one instant
C3_Witness ==
    /\ cache_ttl_seconds < 0 /\ _scanner_cache_ttl < 0
    /\ last.op = "get_cached_scanner_results" /\ last.found = "Stale"
    /\ scans = 2 /\ scanner_scans = 2
    /\ now = StartTime

\* C4: clear_cache and clear_scanner_cache, in any cache state, leave the
\* cache with no Catalog and a zero timestamp and perform no scan; the get
\* that finds the cache so performs exactly one scan, also within ttl of the
\* refresh that preceded the clear.
C4_ClearThenScan ==
    [][/\ IsCall("clear_cache")
          => (/\ _cached_urls' = NoCatalog /\ _cache_timestamp' = 0
              /\ UNCHANGED <<providerVars, scanner_scans>>)
       /\ IsCall("clear_scanner_cache")
          => (/\ lru' = NoList /\ _scanner_cache_timestamp' = 0
              /\ UNCHANGED <<providerVars, scanner_scans>>)
       /\ (IsCall("get_all_urls") /\ _cached_urls = NoCatalog /\ _cache_timestamp = 0)
          => ScansOnce
       /\ (IsCall("get_cached_scanner_results") /\ lru = NoList /\ _scanner_cache_timestamp = 0)
          => ScannerScansOnce]_vars

\* a get_all_urls call found the entry Empty and scanned, in the very instant
\* of the first refresh, with ttl > 0: a clear_cache came between
C4_Witness ==
    /\ last.op = "get_all_urls" /\ last.found = "Empty"
    /\ cache_ttl_seconds > 0
    /\ scans = 2 /\ last.ret.ref = 2
    /\ now = StartTime

\* C7: get_cache_stats changes neither the cached Catalog, nor the cache
\* timestamp, nor the provider's last result, and performs no scan: a
\* get_cache_stats step leaves every variable of the service, the provider,
\* the storage and the clock as it was.
C7_StatsReadOnly ==
    [][IsCall("get_cache_stats")
       => UNCHANGED <<fs, now, providerVars, serviceVars, scannerVars, configVars>>]_vars

\* get_cache_stats reported a Stale entry, which a get_all_urls would have
\* refreshed, and the entry is still there
C7_Witness ==
    /\ last.op = "get_cache_stats" /\ last.found = "Stale"
    /\ cache_ttl_seconds > 0
    /\ last.ret.cache_expired /\ last.ret.cached_urls_count > 0
    /\ _cached_urls # NoCatalog /\ _cache_timestamp > 0

(***************************************************************************)
(* Properties of concurrent get_all_urls callers.                          *)
(***************************************************************************)
\* the threads inside _scan_storage
Scanning == {t \in Threads : pc[t] = "scan"}

\* catalog is the dict a finished scan returned, as that scan returned it
CompleteScanOutput(catalog) ==
    /\ catalog.ref \in DOMAIN produced
    /\ catalog.urls = produced[catalog.ref]
    /\ \A u \in Scanning : frame[u].ref # catalog.ref

\* C5: under any interleaving of concurrent get_all_urls callers, every
\* Catalog returned to a caller, and every Catalog a caller can read from the
\* service, is the complete output of exactly one scan invocation: not a dict
\* that a scan is still filling and not a mixture of two scans.
C5_ReturnsCompleteScan ==
    /\ \A t \in Threads : pc[t] = "done" => CompleteScanOutput(frame[t].ret)
    /\ _cached_urls # NoCatalog => CompleteScanOutput(_cached_urls)

\* a caller holds the Catalog of the first scan while another thread's scan
\* of the grown archive has filled its dict with one of two domains
C5_Witness ==
    \E t, u \in Threads :
        /\ pc[t] = "done" /\ frame[t].ret.ref = 1
        /\ pc[u] = "scan" /\ frame[u].ref = 2
        /\ frame[u].i = 2 /\ frame[u].count = 2
        /\ frame[u].urls # EmptyCatalog
        /\ frame[u].urls # frame[t].ret.urls

\* C6 as stated: for one cache instance, at most one physical scan is in
\* progress at any time.
C6_AtMostOneScan == Cardinality(Scanning) <= 1

(***************************************************************************)
(* Properties of the lookups, one call at a time.                          *)
(***************************************************************************)
\* the step is a completed provider.get_url_by_id or get_snapshot_by_id
IsLookup == IsCall("provider.get_url_by_id") \/ IsCall("provider.get_snapshot_by_id")

\* the value the last result gives for the arguments of the lookup
FromLastResult(catalog) ==
    IF last'.op = "provider.get_url_by_id"
    THEN last'.ret.value = UrlLookup(catalog, last'.ret.args[1])
    ELSE last'.ret.value \in SnapshotLookup(catalog, last'.ret.args[1])

\* C16: provider.get_all_urls runs one full scan on every call and replaces
\* the provider's last result with it; provider.get_url_by_id and
\* get_snapshot_by_id scan only when the provider has produced no result yet,
\* and otherwise answer from the last result, which they leave as it is,
\* without scanning.
C16_LookupsScanOnlyWhenEmpty ==
    [][/\ IsCall("provider.get_all_urls") =>
            /\ ScansOnce
            /\ _cached_results'.ref # _cached_results.ref
            /\ _cached_results'.urls = FullScan(fs).urls
       /\ (IsLookup /\ _cached_results = NoCatalog) =>
            /\ scans' = scans + 1
            /\ _cached_results'.ref = scans'
            /\ _cached_results'.urls = FullScan(fs).urls
            /\ FromLastResult(_cached_results')
       /\ (IsLookup /\ _cached_results # NoCatalog) =>
            /\ UNCHANGED providerVars
            /\ FromLastResult(_cached_results)]_vars

\* a lookup on a provider that has scanned answers None for a Resource the
\* archiver has written since
C16_Witness ==
    /\ last.op = "provider.get_url_by_id"
    /\ last.found = "Scanned"
    /\ last.ret.args = <<UrlId(<<"d">>, <<"e">>)>>
    /\ last.ret.value = None
    /\ fs = ArchiveStages[2]
    /\ scans = 1

\* the step is a call of the filesystem provider's op that raises nothing
Returns(op) ==
    IsCall(op) /\ provider_type = "filesystem" /\ last'.ret.raised = "none"

\* the Capture the call asks for is not in the result it reads, or its
\* directory does not hold the file the call asks for
NoArtifact ==
    \A snapshot \in SnapshotMatches(_cached_results', last'.ret.args[1]) :
        ~FileExists(fs, snapshot.folder_path, last'.ret.args[2])

ProviderLookups ==
    {"provider.get_url_by_id", "provider.get_snapshot_by_id",
     "provider.get_artifact_stream", "provider.get_artifact_path",
     "provider.artifact_exists"}

C20_UnsupportedIsDistinct ==
    (last.op = "get_artifact_path" /\ provider_type = "unsupported") =>
        last.ret.raised = "NotImplementedError"

(***************************************************************************)
(* Properties of the listing.                                              *)
(***************************************************************************)
\* the scanner results the listing request of this step reads, or would read
\* had its parameters been accepted
ListedResults ==
    IF last'.ret.status # 422 THEN lru'.values
    ELSE IF ScannerCacheExpired(now) \/ lru = NoList THEN ScannerScanAt(fs, now, now)
    ELSE lru.values

\* every scanner result converts to an ArchivedUrl model, so that list_urls
\* reaches total_count = len(archived_urls)
Counted(scanner_results) ==
    \A i \in 1..Len(scanner_results) : FromScannerResult(scanner_results[i]).ok

\* the response of this step to page p with the given limit over total_count
\* Resources: a page of min(limit, total_count - (p-1)*limit) items when
\* p <= ceil(total_count / limit), an out-of-range error otherwise
PageOrOutOfRange(p, limit, total_count) ==
    IF p <= CeilDiv(total_count, limit)
    THEN /\ last'.ret.status = 200
         /\ Len(last'.ret.data) = Min(limit, total_count - (p - 1) * limit)
         /\ last'.ret.pagination.total_pages = CeilDiv(total_count, limit)
         /\ last'.ret.pagination.total_count = total_count
    ELSE last'.ret.status = 400

\* C17 as stated: for total_count >= 1 and limit >= 1, a listing request for
\* page p >= 1 is served exactly when p <= ceil(total_count / limit), with
\* min(limit, total_count - (p-1)*limit) items, and is an out-of-range
\* validation error, never an empty page, when p is larger.
C17_ServedIffInRange ==
    [][(/\ IsCall("list_urls")
        /\ last'.ret.args[1] >= 1
        /\ last'.ret.args[2] >= 1
        /\ Len(ListedResults) >= 1
        /\ Counted(ListedResults)) =>
            PageOrOutOfRange(last'.ret.args[1], last'.ret.args[2], Len(ListedResults))]_vars

\* C17 as amended: the same for 1 <= limit <= 100; a limit above 100 is
\* rejected as a validation error of the limit parameter for every page.
C17_ServedIffInRangeUpToLimitMax ==
    [][(/\ IsCall("list_urls")
        /\ last'.ret.args[1] >= 1
        /\ last'.ret.args[2] >= 1
        /\ Len(ListedResults) >= 1
        /\ Counted(ListedResults)) =>
            IF last'.ret.args[2] <= LimitMax
            THEN PageOrOutOfRange(last'.ret.args[1], last'.ret.args[2], Len(ListedResults))
            ELSE last'.ret.status = 422]_vars

\* the last page of three Resources listed two to a page has been served
\* with one item
C17_Witness ==
    /\ last.op = "list_urls"
    /\ last.ret.args[1] = 2 /\ last.ret.args[2] = 2
    /\ last.ret.status = 200
    /\ Len(last.ret.data) = 1
    /\ last.ret.pagination.total_count = 3
    /\ last.ret.pagination.total_pages = 2

\* C18: on an empty Catalog a listing request for page 1 returns zero items
\* without error and total_pages = 0, and a listing request for any page > 1
\* is an out-of-range validation error, not an empty page.
C18_EmptyCatalogPages ==
    [][(/\ IsCall("list_urls")
        /\ ValidQuery(last'.ret.args[1], last'.ret.args[2])
        /\ ListedResults = <<>>) =>
            IF last'.ret.args[1] = 1
            THEN /\ last'.ret.status = 200
                 /\ last'.ret.data = <<>>
                 /\ last'.ret.pagination.total_pages = 0
            ELSE last'.ret.status = 400]_vars

(***************************************************************************)
(* Properties of _parse_timestamp.                                         *)
(***************************************************************************)
\* the token is n digits
AllDigits(token, n) == Len(token) = n /\ \A i \in 1..n : token[i] \in DigitSet

\* the number written by the two digits of the token at i
TwoDigits(token, i) == 10 * DigitVal(token[i]) + DigitVal(token[i + 1])

\* the instant YYYYMMDD and HHMMSS encode
Encoded(date, time) ==
    <<100 * TwoDigits(date, 1) + TwoDigits(date, 3), TwoDigits(date, 5), TwoDigits(date, 7),
      TwoDigits(time, 1), TwoDigits(time, 3), TwoDigits(time, 5)>>

\* a calendar date and a time of day
ValidInstant(v) ==
    /\ v[1] >= 1 /\ v[2] \in 1..12 /\ v[3] >= 1 /\ v[3] <= DaysInMonth(v[1], v[2])
    /\ v[4] \in 0..23 /\ v[5] \in 0..59 /\ v[6] \in 0..59

\* the tokens are YYYYMMDD and HHMMSS of a valid date and time
DateAndTime(date, time) ==
    AllDigits(date, 8) /\ AllDigits(time, 6) /\ ValidInstant(Encoded(date, time))

\* the name the last call parsed, its tokens, and what the call returned
ParsedName == last.ret.args[1]

Tokens == Split(ParsedName, "_")

DateToken == Tokens[Len(Tokens) - 1]

TimeToken == Tokens[Len(Tokens)]

Parsed == last.ret.value

\* the name starts with req_ and has n tokens or more behind it
ReqWithTokens(n) ==
    /\ last.op = "_parse_timestamp"
    /\ StartsWith(ParsedName, ReqPrefix)
    /\ Len(Tokens) - 1 >= n

\* C21: for every name req_{id}_{YYYYMMDD}_{HHMMSS} with a valid date and time
\* and a non-empty id, which may hold hyphens and underscores,
\* _parse_timestamp returns the instant the last two tokens encode.
C21_ParsesEncodedInstant ==
    (/\ ReqWithTokens(3)
     /\ (Len(Tokens) > 4 \/ Tokens[2] # <<>>)
     /\ DateAndTime(DateToken, TimeToken)) =>
        Parsed = Encoded(DateToken, TimeToken)

\* a name whose id holds an underscore has been parsed to 29 February 2024
C21_Witness ==
    /\ ReqWithTokens(4)
    /\ Tokens[2] = <<"a">> /\ Tokens[3] = <<"b">>
    /\ Parsed = <<2024, 2, 29, 0, 0, 0>>

\* C30 as stated: _parse_timestamp returns None for every req_ name with
\* fewer than 3 tokens behind the prefix, and for every name whose last two
\* tokens are not the YYYYMMDD and HHMMSS of a valid date and time.
C30_NoneForMalformed ==
    last.op = "_parse_timestamp" =>
        /\ (StartsWith(ParsedName, ReqPrefix) /\ Len(Tokens) - 1 < 3) => Parsed = NoTime
        /\ (Len(Tokens) < 2 \/ ~DateAndTime(DateToken, TimeToken)) => Parsed = NoTime

\* the last two tokens cannot be read as %Y%m%d and %H%M%S: a character that
\* is not a digit, a date of fewer than 6 or more than 8 characters, a time
\* of fewer than 3 or more than 6, or 8 and 6 digits of no valid date and time
Unreadable(date, time) ==
    \/ \E i \in 1..Len(date) : date[i] \in LetterSet \cup {"-"}
    \/ \E i \in 1..Len(time) : time[i] \in LetterSet \cup {"-"}
    \/ Len(date) < 6 \/ Len(date) > 8
    \/ Len(time) < 3 \/ Len(time) > 6
    \/ (AllDigits(date, 8) /\ AllDigits(time, 6) /\ ~ValidInstant(Encoded(date, time)))

\* C30 as amended: _parse_timestamp returns None for every req_ name with
\* fewer than 2 tokens behind the prefix and for every req_ name whose last
\* two tokens cannot be read as %Y%m%d and %H%M%S; a name made of req_, a date
\* token and a time token, with no request id, parses to the instant encoded.
C30_NoneForMalformedRequestName ==
    /\ (ReqWithTokens(0) /\ Len(Tokens) - 1 < 2) => Parsed = NoTime
    /\ (ReqWithTokens(2) /\ Unreadable(DateToken, TimeToken)) => Parsed = NoTime
    /\ (ReqWithTokens(2) /\ Len(Tokens) = 3 /\ DateAndTime(DateToken, TimeToken)) =>
            Parsed = Encoded(DateToken, TimeToken)

\* None has been returned for a name with a request id and six digits that
\* are no time of day
C30_Witness ==
    /\ ReqWithTokens(3)
    /\ TimeToken = <<"2", "4", "6", "0", "0", "0">>
    /\ DateAndTime(DateToken, Time14)
    /\ Parsed = NoTime

(***************************************************************************)
(* The boundary of the ttl.                                                *)
(***************************************************************************)
\* the call is made with a Catalog cached exactly ttl after its refresh
ServiceCallAtTtl ==
    /\ IsCall("get_all_urls")
    /\ cache_ttl_seconds > 0
    /\ _cached_urls # NoCatalog
    /\ now - _cache_timestamp = cache_ttl_seconds

\* the call is made with a list cached exactly ttl after its refresh
ListingCallAtTtl ==
    /\ IsCall("get_cached_scanner_results")
    /\ _scanner_cache_ttl > 0
    /\ lru # NoList
    /\ now - _scanner_cache_timestamp = _scanner_cache_ttl

\* the step serves the cached Catalog and scans nothing
ServedFromCache ==
    /\ last'.ret = _cached_urls
    /\ scans' = scans
    /\ UNCHANGED serviceVars

\* the step serves the cached list and scans nothing
ListingServedFromCache ==
    /\ last'.ret = lru
    /\ UNCHANGED scannerVars

\* C22 as stated: with ttl > 0, a get() made when exactly ttl seconds have
\* elapsed since the last refresh finds the entry Stale and performs a scan;
\* the entry is served from the cache only while elapsed < ttl.
C22_StaleAtTtl ==
    [][/\ ServiceCallAtTtl => ScansOnce
       /\ ListingCallAtTtl => ScannerScansOnce
       /\ (IsCall("get_all_urls") /\ cache_ttl_seconds > 0 /\ _cached_urls # NoCatalog
           /\ ServedFromCache) => now - _cache_timestamp < cache_ttl_seconds]_vars

\* C22 as amended: with ttl > 0, a get() made when exactly ttl seconds have
\* elapsed since the last refresh finds the entry Fresh and serves it without
\* a scan; the entry is Stale, and a scan is performed, exactly when
\* elapsed > ttl.
C22_FreshAtTtl ==
    [][/\ ServiceCallAtTtl => ServedFromCache
       /\ ListingCallAtTtl => ListingServedFromCache
       /\ (IsCall("get_all_urls") /\ cache_ttl_seconds > 0 /\ _cached_urls # NoCatalog) =>
            (ServedFromCache <=> now - _cache_timestamp <= cache_ttl_seconds)
       /\ (IsCall("get_all_urls") /\ cache_ttl_seconds > 0 /\ _cached_urls # NoCatalog
           /\ now - _cache_timestamp > cache_ttl_seconds) => ScansOnce
       /\ (IsCall("get_cached_scanner_results") /\ _scanner_cache_ttl > 0 /\ lru # NoList) =>
            (ListingServedFromCache <=> now - _scanner_cache_timestamp <= _scanner_cache_ttl)]_vars

\* the listing cache has served, exactly ttl after its refresh, the list of
\* its only scan, and the service its only Catalog
C22_Witness ==
    /\ last.op = "get_cached_scanner_results" /\ last.at = now
    /\ _scanner_cache_ttl > 0
    /\ now - _scanner_cache_timestamp = _scanner_cache_ttl
    /\ scanner_scans = 1 /\ last.ret = lru /\ lru.ref = 1
    /\ _cached_urls # NoCatalog /\ now - _cache_timestamp = cache_ttl_seconds

(***************************************************************************)
(* The lookups of the service and its cache policy.                        *)
(***************************************************************************)
\* the entry of the service is not to be served at this instant: caching is
\* disabled, more than ttl has elapsed since the last scan was stored, or the
\* cache has been cleared since
PolicyAsksForScan ==
    \/ cache_ttl_seconds <= 0
    \/ now - _cache_timestamp > cache_ttl_seconds
    \/ _cached_urls = NoCatalog

\* C23: when ttl <= 0, when more than ttl has elapsed since the last scan, or
\* after clear_cache, StorageService.get_snapshot_by_id is answered from a
\* scan performed by the call and not from an older scan result.
C23_SnapshotLookupHonoursPolicy ==
    [][(IsCall("get_snapshot_by_id") /\ PolicyAsksForScan) =>
          (/\ scans' = scans + 1
           /\ _cached_results'.ref = scans'
           /\ last'.ret.value \in SnapshotLookup(
                  Catalog(scans', ScanStorage(fs, now, EntryCount(fs)).urls),
                  last'.ret.args[1]))]_vars

\* C24 at rest: whenever the service holds a cached Catalog and no call is
\* under way, the last result of the provider is that same Catalog.
C24_OneCatalog ==
    (/\ \A t \in Threads : pc[t] = "idle"
     /\ _cached_urls # NoCatalog) => _cached_results = _cached_urls

(***************************************************************************)
(* get_all_urls next to a concurrent clear_cache.                          *)
(***************************************************************************)
\* C25: under any interleaving of get_all_urls with a concurrent clear_cache,
\* a get_all_urls call whose provider scan succeeded returns a Catalog: never
\* None, and never a StorageError.
C25_ReturnsCatalogDespiteClear ==
    \A t \in Threads :
        pc[t] = "done" => (frame[t].ret # NoCatalog /\ frame[t].ret # StorageError)

(***************************************************************************)
(* A refresh that fails.                                                   *)
(***************************************************************************)
\* the step is a get_all_urls call during which the provider raised
RefreshFailed ==
    /\ IsCall("get_all_urls")
    /\ scans' # scans
    /\ scan_info'.raised

\* C27: if the provider raises during a cache refresh, get_all_urls raises
\* StorageError and leaves the cached Catalog and the cache timestamp as they
\* were before the call; the get_all_urls call that follows attempts a scan
\* again.
C27_FailedRefreshKeepsEntry ==
    [][/\ RefreshFailed =>
            (/\ last'.ret = StorageError
             /\ _cached_urls' = _cached_urls
             /\ _cache_timestamp' = _cache_timestamp
             /\ _cached_results' = _cached_results)
       /\ (IsCall("get_all_urls") /\ last.op = "get_all_urls" /\ last.ret = StorageError) =>
            scans' = scans + 1]_vars

\* a refresh of a Stale entry has failed: the call raised StorageError and
\* the Catalog of the first scan is still cached with its timestamp, and the
\* archive has grown since
C27_Witness ==
    /\ last.op = "get_all_urls" /\ last.ret = StorageError /\ last.found = "Stale"
    /\ scan_info.raised
    /\ scans = 2
    /\ _cached_urls.ref = 1
    /\ _cache_timestamp = StartTime
    /\ fs = ArchiveStages[2]

(***************************************************************************)
(* The timeout of overlapping scans.                                       *)
(***************************************************************************)
\* thread t takes a pass of the loop of _scan_storage
LoopPass(t) == pc[t] = "scan" /\ frame'[t] # frame[t]

\* the pass ends the loop at the timeout test and adds nothing
StopsAtTimeout(t) ==
    /\ frame'[t].i = frame[t].count + 1
    /\ frame'[t].urls = frame[t].urls

\* C26: each scan invocation measures its timeout from its own start: a pass
\* of the loop of a scan stops the scan exactly when more than the budget has
\* elapsed since that scan began, whatever other scans run on the provider.
C26_OwnStartTime ==
    [][\A t \in Threads :
         LoopPass(t) =>
            (StopsAtTimeout(t) <=> now - frame[t].start > timeout_seconds)]_vars

(***************************************************************************)
(* The Resources of a Catalog cut short by the timeout.                    *)
(***************************************************************************)
\* the Captures of a Resource
SnapshotSet(r) == {r.snapshots[i] : i \in 1..Len(r.snapshots)}

\* the Captures built from the first m entries of the path segment p of d
BuiltFromFirst(d, p, m) ==
    {ScanSnapshotDirectory(p.items[x], UrlId(d.name, p.name), <<d.name, p.name>>) :
        x \in {y \in 1..m : IsRequestDirectory(p.items[y])}} \ {NoSnapshot}

\* r is the Resource of the path segment p of the domain d
ResourceOfSegment(r, d, p) == r.folder_name = d.name \o <<"/">> \o p.name

\* r holds every Capture that can be built in its path segment
HoldsAllCaptures(r) ==
    \E d \in DomainDirs(scan_info.storage) : \E p \in PathDirs(d) :
        /\ ResourceOfSegment(r, d, p)
        /\ SnapshotSet(r) = BuiltCaptures(d, p)

\* C28 as stated: in a Catalog cut short by the scan timeout, every Resource
\* that is present holds all valid captures of its path segment.
C28_ResourcesComplete ==
    scan_info.timed_out => \A r \in Resources(_cached_results) : HoldsAllCaptures(r)

\* C28 as amended: the elapsed time is checked before each domain, each path
\* segment and each capture directory, and no capture directory is processed
\* once the timeout is detected; in a Catalog cut short, every Resource holds
\* the captures of the entries of its path segment up to some point of the
\* listing, at least one, and at most one Resource holds fewer than all.
C28_ResourcesCutAtOnePoint ==
    scan_info.timed_out =>
        /\ \A r \in Resources(_cached_results) :
              /\ r.snapshots # <<>>
              /\ \E d \in DomainDirs(scan_info.storage) : \E p \in PathDirs(d) :
                    /\ ResourceOfSegment(r, d, p)
                    /\ \E m \in 0..Len(p.items) : SnapshotSet(r) = BuiltFromFirst(d, p, m)
        /\ Cardinality({r \in Resources(_cached_results) : ~HoldsAllCaptures(r)}) <= 1
        /\ NoCaptureAfterTimeout

\* a scan cut short inside a path segment returned its Resource with the
\* first of its two captures
C28_Witness ==
    /\ scan_info.timed_out
    /\ \E r \in Resources(_cached_results) :
         /\ Len(r.snapshots) = 1
         /\ \E d \in DomainDirs(scan_info.storage) : \E p \in PathDirs(d) :
              /\ ResourceOfSegment(r, d, p)
              /\ Cardinality(BuiltCaptures(d, p)) = 2
              /\ SnapshotSet(r) = BuiltFromFirst(d, p, 1)

(***************************************************************************)
(* The precedence of the URL of a capture.                                 *)
(***************************************************************************)
\* the document read from the metadata file of the last extraction, and the
\* resource id
UrlDocument == ParseMetadataJson(last.ret.args[1])

\* the URL reconstructed from the resource id
Reconstructed(url_id) ==
    IF HasHttpScheme(Unquote(Replace(url_id, "_", "/")))
    THEN Unquote(Replace(url_id, "_", "/"))
    ELSE Https \o Unquote(Replace(url_id, "_", "/"))

\* C29: the URL of a Capture is the nested archive_info.url when that field
\* is present; otherwise the top-level url when present, also when an
\* archive_info object exists but carries no url; otherwise the URL
\* reconstructed from the resource id.
C29_UrlPrecedence ==
    (last.op = "_scan_snapshot_directory" /\ ~last.ret.value.raised) =>
        last.ret.value.url =
            IF Truthy(UrlDocument.ai_url) THEN UrlDocument.ai_url
            ELSE IF Truthy(UrlDocument.url) THEN UrlDocument.url
            ELSE JStr(Reconstructed(last.ret.args[2]))
====
